---- MODULE Spec2Model ----
(***************************************************************************)
(* Model of the credit-underwriting RAG pipeline: the Ollama failure       *)
(* translator, get_engine / explain_case (src/src/query.py), the JSON      *)
(* extractor, the answer schema (src/src/schema.py) and the                *)
(* QueryEngineManager entry points (src/src/query_engine.py).              *)
(*                                                                         *)
(* Texts are sequences of lexemes.  A lexeme is one or more characters of  *)
(* the real text; only the lexemes "{" and "}" contain a brace, so the     *)
(* regular expression of extract_json acts on lexemes exactly as it acts   *)
(* on characters.                                                          *)
(***************************************************************************)
EXTENDS Integers, Sequences, FiniteSets, TLC

VARIABLES
    env,        \* the process environment read by src/src/settings.py at import
    op,         \* the entry point the caller invoked ("none" when idle)
    pc,         \* position inside the running call
    question,   \* explain_case's first argument
    decision_json, \* explain_case's second argument
    engine,     \* what the engine get_engine built does when it is queried
    exc,        \* the low-level exception a capability raised in this call
    excAt,      \* where it was raised: "ollama", "embed", "index", "query", "llm"
    queries,    \* number of engine.query / llm invocations made by this call
    rawText,    \* str(raw): the model output handed to extract_json
    loadsCalls, \* number of json.loads invocations made by this call
    loadsArg,   \* the argument of the last json.loads invocation
    data,       \* the dict extract_json returned
    outcome,    \* what the caller of the entry point observes
    cfg,        \* the process environment read by config/settings.py at import
    documents_dir, \* settings.DOCUMENTS_DIR on disk
    index_dir,  \* settings.INDEX_DIR on disk, the chroma directory inside it included
    embed_model, \* Settings.embed_model, the process-wide embedding model
    args,       \* the arguments of the running IndexManager call
    result,     \* what the caller of an IndexManager method observes
    built,      \* the index the last create_index call returned, and how it was built
    retrieval,  \* the last retrieval: the engine, the retrieved nodes, the nodes synthesized
    conversation, \* the chat turns a QueryEngineManager served and what its last call saw
    chunk_env,  \* CHUNK_SIZE and CHUNK_OVERLAP in the environment of config/settings.py
    loader,     \* the DataLoader the process constructed, and the nodes it produced
    db,         \* the rows of the credit_score_results table
    tasks,      \* the background tasks FastAPI holds for the requests served
    http        \* the request being served, the steps it took and its response

\* the state of the query side
qvars == <<env, question, decision_json, engine, exc, excAt, queries, rawText,
           loadsCalls, loadsArg, data, outcome>>

\* the state of the index side
ixvars == <<cfg, documents_dir, index_dir, embed_model, args, result, built>>

\* the state of the QueryEngineManager
mvars == <<retrieval, conversation>>

\* the state of the DataLoader
lvars == <<chunk_env, loader>>

\* the state of the scoring service
apivars == <<db, tasks, http>>

\* the state outside the query side and the index side
svars == <<retrieval, conversation, chunk_env, loader, db, tasks, http>>

vars == <<env, op, pc, question, decision_json, engine, exc, excAt, queries, rawText,
          loadsCalls, loadsArg, data, outcome,
          cfg, documents_dir, index_dir, embed_model, args, result, built,
          retrieval, conversation, chunk_env, loader, db, tasks, http>>

(***************************************************************************)
(* Bounds of the model.                                                    *)
(***************************************************************************)
\* longest model output of the extractor specification, in lexemes
MaxLen == 7
\* most members of a JSON object in the model outputs of the pipeline specification
MaxMembers == 3

\* the longest reasons array of a dict handed to the schema
MaxReasons == 2

\* the number of documents the documents directory can hold
MaxDocs == 2

\* the longest conversation a QueryEngineManager serves, in chat calls
MaxTurns == 3

(***************************************************************************)
(* src/src/settings.py: configuration read from the environment.           *)
(***************************************************************************)
Unset == "<unset>"

EnvVars == {"OLLAMA_BASE_URL", "OLLAMA_MODEL", "LLM_MODEL", "VECTOR_STORE_TYPE"}

\* the values the environment may give each variable in this model
EnvChoices ==
    [OLLAMA_BASE_URL   |-> {Unset, "http://ollama.internal:11434"},
     OLLAMA_MODEL      |-> {Unset, "llama3.1:8b"},
     LLM_MODEL         |-> {Unset, "mistral:7b"},
     VECTOR_STORE_TYPE |-> {Unset, "simple", "Chroma"}]

Environments == {e \in [EnvVars -> UNION {EnvChoices[v] : v \in EnvVars}] :
                    \A v \in EnvVars : e[v] \in EnvChoices[v]}

\* os.getenv(name, default)
getenv(name, default) == IF env[name] = Unset THEN default ELSE env[name]

OLLAMA_BASE_URL == getenv("OLLAMA_BASE_URL", "http://localhost:11434")

\* the fallback chain read the other way round: the legacy variable first
OLLAMA_MODEL_legacy_first == getenv("LLM_MODEL", getenv("OLLAMA_MODEL", "qwen3:8b"))

OLLAMA_MODEL == getenv("OLLAMA_MODEL", getenv("LLM_MODEL", "qwen3:8b"))

LLM_MODEL == OLLAMA_MODEL

\* str.lower() on the values of the model
lower(s) == IF s = "Chroma" THEN "chroma" ELSE s

VECTOR_STORE_TYPE == lower(getenv("VECTOR_STORE_TYPE", "chroma"))

CHROMA_PERSIST_DIR == "./storage/chroma"

CHROMA_COLLECTION == "credit_policies"

(***************************************************************************)
(* Exceptions.  An exception value is its class, the HTTP response it      *)
(* carries (if any) and its own message text.                              *)
(***************************************************************************)
\* the classes query.py tests with isinstance, and the exception classes of
\* the standard library, requests and httpx that can reach it
ExcClasses ==
    {"socket.timeout", "TimeoutError", "requests.Timeout", "requests.ConnectTimeout",
     "requests.ReadTimeout", "httpx.ReadTimeout", "httpx.ConnectTimeout",
     "ConnectionRefusedError", "requests.ConnectionError", "requests.SSLError",
     "httpx.ConnectError", "httpx.HTTPStatusError", "requests.HTTPError",
     "httpx.ReadError", "OSError", "ValueError"}

\* every class an instance of the class is an instance of (its MRO)
Mro(cls) ==
    CASE cls = "socket.timeout"           -> {"socket.timeout", "OSError"}
      [] cls = "TimeoutError"             -> {"TimeoutError", "OSError"}
      [] cls = "requests.Timeout"         -> {"requests.Timeout", "requests.RequestException", "OSError"}
      [] cls = "requests.ConnectTimeout"  -> {"requests.ConnectTimeout", "requests.ConnectionError",
                                              "requests.Timeout", "requests.RequestException", "OSError"}
      [] cls = "requests.ReadTimeout"     -> {"requests.ReadTimeout", "requests.Timeout",
                                              "requests.RequestException", "OSError"}
      [] cls = "httpx.ReadTimeout"        -> {"httpx.ReadTimeout", "httpx.TimeoutException",
                                              "httpx.TransportError", "httpx.HTTPError"}
      [] cls = "httpx.ConnectTimeout"     -> {"httpx.ConnectTimeout", "httpx.TimeoutException",
                                              "httpx.TransportError", "httpx.HTTPError"}
      [] cls = "ConnectionRefusedError"   -> {"ConnectionRefusedError", "ConnectionError", "OSError"}
      [] cls = "requests.ConnectionError" -> {"requests.ConnectionError", "requests.RequestException", "OSError"}
      [] cls = "requests.SSLError"        -> {"requests.SSLError", "requests.ConnectionError",
                                              "requests.RequestException", "OSError"}
      [] cls = "httpx.ConnectError"       -> {"httpx.ConnectError", "httpx.NetworkError",
                                              "httpx.TransportError", "httpx.HTTPError"}
      [] cls = "httpx.HTTPStatusError"    -> {"httpx.HTTPStatusError", "httpx.HTTPError"}
      [] cls = "requests.HTTPError"       -> {"requests.HTTPError", "requests.RequestException", "OSError"}
      [] cls = "httpx.ReadError"          -> {"httpx.ReadError", "httpx.NetworkError",
                                              "httpx.TransportError", "httpx.HTTPError"}
      [] cls = "OSError"                  -> {"OSError"}
      [] OTHER                            -> {cls}

\* the classes whose instances carry a .response attribute
HasResponseAttr(cls) == Mro(cls) \cap {"httpx.HTTPStatusError", "requests.RequestException"} # {}

\* the HTTP status codes of the model
StatusCodes == {401, 404, 500}

\* the message texts an exception may carry: a plain one, and one holding a secret
PlainText == "connect failed"

SecretText == "401 Unauthorized: Authorization: Bearer sk-SECRET-KEY"

ExcTexts == {PlainText, SecretText}

NoExc == [cls |-> "<none>", hasResponse |-> FALSE, status |-> 0, text |-> ""]

Exceptions ==
    {[cls |-> c, hasResponse |-> FALSE, status |-> 0, text |-> t] :
        c \in ExcClasses, t \in ExcTexts}
    \cup
    {[cls |-> c, hasResponse |-> TRUE, status |-> s, text |-> t] :
        c \in {k \in ExcClasses : HasResponseAttr(k)}, s \in StatusCodes, t \in ExcTexts}

\* isinstance(exc, classes)
isinstance(e, classes) == Mro(e.cls) \cap classes # {}

(***************************************************************************)
(* Messages are sequences of pieces: the fixed text of an f-string and the *)
(* values formatted into it.                                               *)
(***************************************************************************)
DigitChar == <<"0", "1", "2", "3", "4", "5", "6", "7", "8", "9">>

RECURSIVE DecimalDigits(_)
\* str(n) of a non-negative int, digit by digit
DecimalDigits(n) ==
    IF n < 10 THEN <<DigitChar[n + 1]>>
    ELSE DecimalDigits(n \div 10) \o <<DigitChar[(n % 10) + 1]>>

\* an error object: its class, its message and how it is chained
Error(type, msg, cause, context, suppress) ==
    [type |-> type, msg |-> msg, cause |-> cause, context |-> context, suppress |-> suppress]

NoError == Error("<none>", <<>>, NoExc, NoExc, FALSE)

\* RuntimeError(msg), as constructed (not yet raised)
RuntimeError(msg) == Error("RuntimeError", msg, NoExc, NoExc, FALSE)

\* exc.response.status_code on a response that is None
AttributeError == Error("AttributeError", <<"'NoneType' object has no attribute 'status_code'">>,
                        NoExc, NoExc, FALSE)

\* mutation: reads exc.response.status_code without the None test
status_code_unguarded(e) ==
    IF e.hasResponse THEN [ok |-> TRUE, digits |-> DecimalDigits(e.status), is404 |-> e.status = 404]
    ELSE [ok |-> FALSE, digits |-> <<>>, is404 |-> FALSE]

\* status_code = exc.response.status_code if exc.response is not None else None,
\* with the text an f-string gives it
status_code(e) ==
    IF e.hasResponse THEN [ok |-> TRUE, digits |-> DecimalDigits(e.status), is404 |-> e.status = 404]
    ELSE [ok |-> TRUE, digits |-> <<"None">>, is404 |-> FALSE]

MsgTimeout ==
    <<"Ollama request timed out. Check server responsiveness at ", OLLAMA_BASE_URL,
      " and try again.">>

MsgUnreachable ==
    <<"Cannot connect to Ollama at ", OLLAMA_BASE_URL,
      ". Ensure Ollama Desktop is running and reachable.">>

MsgModelNotFound ==
    <<"Ollama model '", OLLAMA_MODEL,
      "' was not found (HTTP 404). Pull the model in Ollama Desktop or update OLLAMA_MODEL.">>

MsgServiceError(digits) ==
    <<"Ollama request failed with HTTP ">> \o digits \o
    <<". Verify OLLAMA_BASE_URL=", OLLAMA_BASE_URL, " and OLLAMA_MODEL=", OLLAMA_MODEL, ".">>

MsgUnknown ==
    <<"Ollama query failed unexpectedly. Verify OLLAMA_BASE_URL and OLLAMA_MODEL settings.">>

TimeoutClasses == {"socket.timeout", "TimeoutError", "requests.Timeout", "httpx.TimeoutException"}

ConnectClasses == {"ConnectionRefusedError", "requests.ConnectionError", "httpx.ConnectError"}

\* the two HTTP-status branches, which are the same but for the class tested
HttpStatusBranch(e) ==
    LET sc == status_code(e) IN
    IF ~sc.ok THEN [ok |-> FALSE, err |-> AttributeError]
    ELSE IF sc.is404 THEN [ok |-> TRUE, err |-> RuntimeError(MsgModelNotFound)]
    ELSE [ok |-> TRUE, err |-> RuntimeError(MsgServiceError(sc.digits))]

\* mutation: the fallback message quotes the exception
_friendly_ollama_error_quoting(e) ==
    IF isinstance(e, TimeoutClasses) THEN [ok |-> TRUE, err |-> RuntimeError(MsgTimeout)]
    ELSE IF isinstance(e, ConnectClasses) THEN [ok |-> TRUE, err |-> RuntimeError(MsgUnreachable)]
    ELSE IF isinstance(e, {"httpx.HTTPStatusError"}) THEN HttpStatusBranch(e)
    ELSE IF isinstance(e, {"requests.HTTPError"}) THEN HttpStatusBranch(e)
    ELSE [ok |-> TRUE, err |-> RuntimeError(<<"Ollama query failed unexpectedly: ", e.text>>)]

\* _friendly_ollama_error(exc): ok and the RuntimeError it returns, or not ok
\* and the error it raised itself
_friendly_ollama_error(e) ==
    IF isinstance(e, TimeoutClasses) THEN [ok |-> TRUE, err |-> RuntimeError(MsgTimeout)]
    ELSE IF isinstance(e, ConnectClasses) THEN [ok |-> TRUE, err |-> RuntimeError(MsgUnreachable)]
    ELSE IF isinstance(e, {"httpx.HTTPStatusError"}) THEN HttpStatusBranch(e)
    ELSE IF isinstance(e, {"requests.HTTPError"}) THEN HttpStatusBranch(e)
    ELSE [ok |-> TRUE, err |-> RuntimeError(MsgUnknown)]

\* raise _friendly_ollama_error(exc) from None, inside "except Exception as exc"
RaiseFriendly(e) ==
    LET r == _friendly_ollama_error(e) IN
    IF r.ok THEN [r.err EXCEPT !.cause = NoExc, !.context = e, !.suppress = TRUE]
    ELSE [r.err EXCEPT !.context = e]

\* an exception that propagates to the caller as it was raised
RaiseRaw(e) == Error(e.cls, <<e.text>>, NoExc, NoExc, FALSE)

(***************************************************************************)
(* Model output texts and JSON values.                                     *)
(* Lexemes: "{" and "}" are the braces; "," the comma; "w" a word of       *)
(* commentary; "1" a number; "k" the key "k" with its colon, to be         *)
(* followed by a value; "S", "D", "Dx", "R" whole members of an answer:    *)
(*   S  = "summary":"x"      D  = "decision":"review"                      *)
(*   Dx = "decision":"maybe" R  = "reasons":[]                             *)
(***************************************************************************)
MemberLexemes == {"S", "D", "Dx", "R"}

\* a JSON value: its type, its text (strings and numbers) and its members
\* (objects), as a set of <<key, value>> pairs with one pair per key
Value(t, s, m) == [t |-> t, s |-> s, m |-> m]

NoValue == Value("<none>", "", {})

JsonNumber == Value("number", "1", {})

JsonString(s) == Value("string", s, {})

JsonEmptyList == Value("list", "", {})

JsonObject(m) == Value("object", "", m)

\* the member a member lexeme stands for
MemberOf(lex) ==
    CASE lex = "S"  -> <<"summary", JsonString("x")>>
      [] lex = "D"  -> <<"decision", JsonString("review")>>
      [] lex = "Dx" -> <<"decision", JsonString("maybe")>>
      [] lex = "R"  -> <<"reasons", JsonEmptyList>>

\* d[key] = value on a dict: a repeated key keeps its last value
DictSet(m, kv) == {p \in m : p[1] # kv[1]} \cup {kv}

HasKey(m, key) == \E p \in m : p[1] = key

DictGet(m, key) == (CHOOSE p \in m : p[1] = key)[2]

\* a failed parse
ParseFail == [ok |-> FALSE, val |-> NoValue, end |-> 0]

RECURSIVE ParseValue(_, _), ParseMembers(_, _, _)
\* the JSON scanner at lexeme i of s: the value that starts there and the
\* index after it
ParseValue(s, i) ==
    IF i > Len(s) THEN ParseFail
    ELSE IF s[i] = "1" THEN [ok |-> TRUE, val |-> JsonNumber, end |-> i + 1]
    ELSE IF s[i] = "{" THEN
        IF i + 1 <= Len(s) /\ s[i + 1] = "}"
        THEN [ok |-> TRUE, val |-> JsonObject({}), end |-> i + 2]
        ELSE ParseMembers(s, i + 1, {})
    ELSE ParseFail

\* the members of an object from lexeme i on, after "{" or ","
ParseMembers(s, i, acc) ==
    IF i > Len(s) THEN ParseFail
    ELSE
        LET one == IF s[i] \in MemberLexemes
                   THEN [ok |-> TRUE, kv |-> MemberOf(s[i]), end |-> i + 1]
                   ELSE IF s[i] = "k"
                   THEN LET r == ParseValue(s, i + 1) IN
                        [ok |-> r.ok, kv |-> <<"k", r.val>>, end |-> r.end]
                   ELSE [ok |-> FALSE, kv |-> <<"", NoValue>>, end |-> 0]
        IN  IF ~one.ok \/ one.end > Len(s) THEN ParseFail
            ELSE IF s[one.end] = "}"
            THEN [ok |-> TRUE, val |-> JsonObject(DictSet(acc, one.kv)), end |-> one.end + 1]
            ELSE IF s[one.end] = ","
            THEN ParseMembers(s, one.end + 1, DictSet(acc, one.kv))
            ELSE ParseFail

\* mutation: a decoder that repairs the text by keeping its first value and
\* dropping what follows it (raw_decode)
json_loads_first_value(s) ==
    LET r == ParseValue(s, 1) IN
    IF r.ok THEN [ok |-> TRUE, val |-> r.val]
    ELSE [ok |-> FALSE, val |-> NoValue]

\* json.loads(s): the value, or JSONDecodeError when s does not start with a
\* value or has extra data after it
json_loads(s) ==
    LET r == ParseValue(s, 1) IN
    IF r.ok /\ r.end = Len(s) + 1 THEN [ok |-> TRUE, val |-> r.val]
    ELSE [ok |-> FALSE, val |-> NoValue]

\* mutation: a non-greedy pattern, \{.*?\}, which ends at the first "}"
re_search_lazy(text) ==
    LET starts == {i \in 1..Len(text) :
                      text[i] = "{" /\ \E j \in (i + 1)..Len(text) : text[j] = "}"}
    IN  IF starts = {} THEN [found |-> FALSE, group |-> <<>>]
        ELSE LET i == CHOOSE a \in starts : \A b \in starts : a <= b
                 ends == {j \in (i + 1)..Len(text) : text[j] = "}"}
                 j == CHOOSE a \in ends : \A b \in ends : a <= b
             IN  [found |-> TRUE, group |-> SubSeq(text, i, j)]

\* mutation: a pattern that needs no closing brace, \{.*
re_search_open(text) ==
    LET starts == {i \in 1..Len(text) : text[i] = "{"}
    IN  IF starts = {} THEN [found |-> FALSE, group |-> <<>>]
        ELSE LET i == CHOOSE a \in starts : \A b \in starts : a <= b
             IN  [found |-> TRUE, group |-> SubSeq(text, i, Len(text))]

\* re.search(r"\{.*\}", text, flags=re.S): the leftmost "{" from which a
\* match exists, and from there the longest match
re_search(text) ==
    LET starts == {i \in 1..Len(text) :
                      text[i] = "{" /\ \E j \in (i + 1)..Len(text) : text[j] = "}"}
    IN  IF starts = {} THEN [found |-> FALSE, group |-> <<>>]
        ELSE LET i == CHOOSE a \in starts : \A b \in starts : a <= b
                 ends == {j \in (i + 1)..Len(text) : text[j] = "}"}
                 j == CHOOSE a \in ends : \A b \in ends : a >= b
             IN  [found |-> TRUE, group |-> SubSeq(text, i, j)]

ValueError == Error("ValueError", <<"No JSON object found in model output.">>, NoExc, NoExc, FALSE)

JSONDecodeError == Error("JSONDecodeError", <<"json.loads could not decode the text">>, NoExc, NoExc, FALSE)

\* extract_json(text): what it raises or returns, and its use of json.loads
extract_json(text) ==
    LET match == re_search(text) IN
    IF ~match.found
    THEN [raised |-> TRUE, err |-> ValueError, val |-> NoValue, loads |-> 0, arg |-> <<>>]
    ELSE LET r == json_loads(match.group) IN
         IF r.ok
         THEN [raised |-> FALSE, err |-> NoError, val |-> r.val, loads |-> 1, arg |-> match.group]
         ELSE [raised |-> TRUE, err |-> JSONDecodeError, val |-> NoValue, loads |-> 1, arg |-> match.group]

(***************************************************************************)
(* src/src/schema.py: the answer schema.                                   *)
(***************************************************************************)
Decision == {"approve", "decline", "need_more_info", "review"}

\* the Literal of Reason.type
ReasonType == {"rule", "model", "policy"}

\* a JSON array: its items, in order, under the keys "0", "1", ...
JsonList(items) == Value("list", "", {<<DigitChar[i], items[i]>> : i \in 1..Len(items)})

\* the items of an array
ListItems(v) == {p[2] : p \in v.m}

None == Value("None", "", {})

\* a field declared str: pydantic takes a JSON string and nothing else
IsStr(m, f) == HasKey(m, f) /\ DictGet(m, f).t = "string"

\* a field declared Optional[int]: absent, null, an integer, or, as pydantic
\* validates in lax mode, a string of digits, which it converts
IsOptionalInt(m, f) ==
    \/ ~HasKey(m, f)
    \/ DictGet(m, f).t \in {"None", "number"}
    \/ DictGet(m, f).t = "string" /\ DictGet(m, f).s \in {DigitChar[k] : k \in 1..10}

\* whether e validates as an Evidence
EvidenceOk(e) ==
    /\ e.t = "object"
    /\ IsStr(e.m, "doc_title")
    /\ IsOptionalInt(e.m, "page")

\* whether r validates as a Reason
ReasonOk(r) ==
    /\ r.t = "object"
    /\ IsStr(r.m, "type")
    /\ DictGet(r.m, "type").s \in ReasonType
    /\ IsStr(r.m, "text")
    /\ HasKey(r.m, "evidence") =>
          /\ DictGet(r.m, "evidence").t = "list"
          /\ \A e \in ListItems(DictGet(r.m, "evidence")) : EvidenceOk(e)

\* mutation: a schema whose decision field is a plain str
SchemaErrors_decision_str(d) ==
    {f \in {"summary", "decision", "reasons"} : ~HasKey(d.m, f)}
    \cup {f \in {"summary", "decision"} : HasKey(d.m, f) /\ DictGet(d.m, f).t # "string"}
    \cup {f \in {"reasons"} : HasKey(d.m, f) /\
            ~(DictGet(d.m, f).t = "list" /\ \A r \in ListItems(DictGet(d.m, f)) : ReasonOk(r))}

\* the fields of AssistantResponse a dict fails on
SchemaErrors(d) ==
    {f \in {"summary", "decision", "reasons"} : ~HasKey(d.m, f)}
    \cup {f \in {"summary"} : HasKey(d.m, f) /\ DictGet(d.m, f).t # "string"}
    \cup {f \in {"decision"} : HasKey(d.m, f) /\
            ~(DictGet(d.m, f).t = "string" /\ DictGet(d.m, f).s \in Decision)}
    \cup {f \in {"reasons"} : HasKey(d.m, f) /\
            ~(DictGet(d.m, f).t = "list" /\ \A r \in ListItems(DictGet(d.m, f)) : ReasonOk(r))}

ValidationError == Error("ValidationError", <<"validation errors for AssistantResponse">>, NoExc, NoExc, FALSE)

\* the value of a validated Optional[int] field
OptionalInt(m, f) ==
    IF ~HasKey(m, f) \/ DictGet(m, f).t = "None" THEN None
    ELSE Value("number", DictGet(m, f).s, {})

\* the validated Evidence: the declared fields only, defaults filled in
Evidence(e) ==
    Value("Evidence", "",
          {<<"doc_title", DictGet(e.m, "doc_title")>>,
           <<"version", None>>,
           <<"section", None>>,
           <<"page", OptionalInt(e.m, "page")>>})

\* the validated Reason
Reason(r) ==
    Value("Reason", "",
          {<<"type", DictGet(r.m, "type")>>,
           <<"text", DictGet(r.m, "text")>>,
           <<"evidence",
             IF HasKey(r.m, "evidence")
             THEN Value("list", "", {<<p[1], Evidence(p[2])>> : p \in DictGet(r.m, "evidence").m})
             ELSE JsonEmptyList>>})

\* the validated model: the declared fields only, defaults filled in
AssistantResponse(d) ==
    Value("AssistantResponse", "",
          {<<"summary", DictGet(d.m, "summary")>>,
           <<"decision", DictGet(d.m, "decision")>>,
           <<"reasons", Value("list", "", {<<p[1], Reason(p[2])>> : p \in DictGet(d.m, "reasons").m})>>,
           <<"missing_info", JsonEmptyList>>,
           <<"next_actions", JsonEmptyList>>,
           <<"customer_message_draft", None>>,
           <<"risk_note", None>>})

\* AssistantResponse.model_validate(data)
model_validate(d) ==
    IF d.t # "object" \/ SchemaErrors(d) # {}
    THEN [raised |-> TRUE, err |-> ValidationError, val |-> NoValue]
    ELSE [raised |-> FALSE, err |-> NoError, val |-> AssistantResponse(d)]

(***************************************************************************)
(* The inputs of the model.                                                *)
(***************************************************************************)
SeqsUpTo(S, n) == UNION {[1..k -> S] : k \in 0..n}

RECURSIVE JoinComma(_)
JoinComma(ms) ==
    IF Len(ms) = 0 THEN <<>>
    ELSE IF Len(ms) = 1 THEN <<ms[1]>>
    ELSE <<ms[1], ",">> \o JoinComma(Tail(ms))

\* what the model may answer in the pipeline specification: an object of up
\* to MaxMembers answer members, or no object, between commentary
ModelOutputs ==
    LET bodies == {<<"{">> \o JoinComma(ms) \o <<"}">> : ms \in SeqsUpTo(MemberLexemes, MaxMembers)}
                  \cup {<<>>, <<"{">>, <<"}", "{">>}
    IN  {p \o b \o q : p \in {<<>>, <<"w">>}, b \in bodies, q \in {<<>>, <<"w">>, <<"w", "}">>}}

\* the lexemes of the extractor specification
ExtractAlphabet == {"{", "}", "k", "1", "w"}

\* every text of up to MaxLen of them
ExtractInputs == SeqsUpTo(ExtractAlphabet, MaxLen)

\* a member that may be absent: no pair, or the pair of the key and one value
OptMember(key, values) == {{}} \cup {{<<key, v>>} : v \in values}

\* the evidence items of the model: with and without a title, the page
\* absent, an integer, a string of digits and a word
EvidenceInputs ==
    {JsonObject({<<"doc_title", JsonString("policy.pdf")>>} \cup pg) :
        pg \in OptMember("page", {JsonNumber, JsonString("1"), JsonString("x")})}
    \cup {JsonObject({<<"page", JsonNumber>>})}

\* the reasons of the model: every type of the schema and one outside it, a
\* reason without a type, one without a text, and reasons that cite evidence
ReasonInputs ==
    {JsonObject(ty \cup {<<"text", JsonString("t")>>}) :
        ty \in OptMember("type", {JsonString(x) : x \in {"rule", "model", "policy", "other"}})}
    \cup {JsonObject({<<"type", JsonString("rule")>>})}
    \cup {JsonObject({<<"type", JsonString("policy")>>, <<"text", JsonString("t")>>,
                      <<"evidence", JsonList(ev)>>}) :
            ev \in {<<>>} \cup {<<e>> : e \in EvidenceInputs}}

\* the dicts handed to the schema: each required field absent, well typed or
\* ill typed, up to MaxReasons reasons, and a key the schema does not declare
ValidateInputs ==
    {JsonObject(su \cup de \cup re \cup ex) :
        su \in OptMember("summary", {JsonString("x"), JsonNumber}),
        de \in OptMember("decision", {JsonString(x) : x \in Decision \cup {"maybe"}} \cup {JsonNumber}),
        re \in OptMember("reasons", {JsonList(rs) : rs \in SeqsUpTo(ReasonInputs, MaxReasons)}
                                    \cup {JsonString("none")}),
        ex \in OptMember("k", {JsonNumber})}

(***************************************************************************)
(* What a caller observes.                                                 *)
(***************************************************************************)
Pending == [kind |-> "none", err |-> NoError, val |-> NoValue]

Raised(err) == [kind |-> "raised", err |-> err, val |-> NoValue]

Returned(val) == [kind |-> "returned", err |-> NoError, val |-> val]

\* the objects the entry points hand back
EngineHandle == Value("RetrieverQueryEngine", "", {})

ResultDict == Value("dict", "answer", {})

Suggestions == Value("list", "suggestions", {})

EmptyEnv == [v \in EnvVars |-> Unset]

\* what an engine does when queried: it raises, or it answers with a text
NoEngine == [raises |-> FALSE, exc |-> NoExc, text |-> <<>>]

EngineBehaviours ==
    {[raises |-> TRUE, exc |-> e, text |-> <<>>] : e \in Exceptions}
    \cup {[raises |-> FALSE, exc |-> NoExc, text |-> t] : t \in ModelOutputs}

\* the questions of the model
Questions == {"Summarize rationale and next steps for this case.", "hello"}

\* a Python object json.dumps cannot serialise (a set, a datetime, a numpy integer)
Unserializable == Value("set", "", {})

\* the decision_json arguments of the model: the one of the tests, and a dict
\* that holds an object json has no encoding for
DecisionJsons ==
    {JsonObject({<<"decision", JsonObject({})>>}),
     JsonObject({<<"decision", Unserializable>>})}

RECURSIVE Serializable(_)
\* whether json.dumps has an encoding for every part of v
Serializable(v) ==
    /\ v.t \in {"object", "list", "string", "number"}
    /\ \A p \in v.m : Serializable(p[2])

\* json.dumps(decision_json, ensure_ascii=False): the text, one piece here,
\* or TypeError
json_dumps(v) ==
    IF Serializable(v)
    THEN [raised |-> FALSE, err |-> NoError, text |-> <<"json.dumps", v>>]
    ELSE [raised |-> TRUE,
          err |-> Error("TypeError", <<"Object of type set is not JSON serializable">>,
                        NoExc, NoExc, FALSE),
          text |-> <<>>]

\* PROMPT_TEMPLATE, cut at its braces: the text before the schema, the schema
\* block, which opens with a single "{", the rules, and the two placeholders.
\* After a "{" comes the text up to the next ":" or "}".
PROMPT_TEMPLATE ==
    <<"You are a Credit Underwriting Assistant. You MUST answer ONLY in valid JSON matching this schema: ",
      "{", " \"summary\"", ": string, \"decision\": ... \"risk_note\": string|null ", "}",
      " Rules: ... decision_json: ",
      "{", "decision_json", "}",
      " User question: ",
      "{", "question", "}",
      " ">>

RECURSIVE FormatFrom(_, _, _, _)
\* str.format from piece i on: text is copied, and a "{" opens a replacement
\* field whose name is looked up in the keyword arguments when it is reached
FormatFrom(tpl, i, kwargs, out) ==
    IF i > Len(tpl) THEN [raised |-> FALSE, err |-> NoError, text |-> out]
    ELSE IF tpl[i] = "{" THEN
        IF i + 1 > Len(tpl)
        THEN [raised |-> TRUE,
              err |-> Error("ValueError", <<"Single '{' encountered in format string">>,
                            NoExc, NoExc, FALSE),
              text |-> <<>>]
        ELSE IF tpl[i + 1] \notin DOMAIN kwargs
        THEN [raised |-> TRUE,
              err |-> Error("KeyError", <<tpl[i + 1]>>, NoExc, NoExc, FALSE),
              text |-> <<>>]
        ELSE IF i + 2 <= Len(tpl) /\ tpl[i + 2] = "}"
        THEN FormatFrom(tpl, i + 3, kwargs, out \o <<kwargs[tpl[i + 1]]>>)
        ELSE [raised |-> TRUE,
              err |-> Error("ValueError", <<"Invalid format specifier">>, NoExc, NoExc, FALSE),
              text |-> <<>>]
    ELSE FormatFrom(tpl, i + 1, kwargs, out \o <<tpl[i]>>)

\* template.format(**kwargs)
format(tpl, kwargs) == FormatFrom(tpl, 1, kwargs, <<>>)

\* explain_case's prompt: the arguments are evaluated, json.dumps first, and
\* then formatted into the template
BuildPrompt(q, dj) ==
    LET dumped == json_dumps(dj) IN
    IF dumped.raised THEN [raised |-> TRUE, err |-> dumped.err, text |-> <<>>]
    ELSE format(PROMPT_TEMPLATE, [decision_json |-> dumped.text, question |-> <<q>>])

(***************************************************************************)
(* config/settings.py: the settings of the index side.                     *)
(***************************************************************************)
CfgVars == {"VECTOR_STORE_TYPE", "EMBEDDING_MODEL"}

\* the values the model gives each variable
CfgChoices ==
    [VECTOR_STORE_TYPE |-> {Unset, "chroma", "faiss", "simple"},
     EMBEDDING_MODEL   |-> {Unset, "BAAI/bge-m3", "intfloat/multilingual-e5-small"}]

Configurations == {c \in [CfgVars -> UNION {CfgChoices[v] : v \in CfgVars}] :
                      \A v \in CfgVars : c[v] \in CfgChoices[v]}

\* os.getenv(name, default) in a process started with the environment c
cfg_getenv(c, name, default) == IF c[name] = Unset THEN default ELSE c[name]

\* the attributes class Settings defines
SettingsAttrs ==
    {"OPENAI_API_KEY", "MODEL_NAME", "EMBEDDING_MODEL", "PROJECT_ROOT", "DATA_DIR",
     "DOCUMENTS_DIR", "INDEX_DIR", "VECTOR_STORE_TYPE", "CHROMA_PERSIST_DIR", "CHUNK_SIZE",
     "CHUNK_OVERLAP", "SIMILARITY_TOP_K", "RESPONSE_MODE", "LOG_LEVEL", "validate",
     "ensure_directories"}

\* settings.EMBEDDING_MODEL
EMBEDDING_MODEL(c) == cfg_getenv(c, "EMBEDDING_MODEL", "text-embedding-ada-002")

\* IndexManager.__init__: self.vector_store_type = settings.VECTOR_STORE_TYPE
vector_store_type(c) == cfg_getenv(c, "VECTOR_STORE_TYPE", "chroma")

\* the embedding model of a process that has set none: LlamaIndex's default
DefaultEmbedModel == "<default>"

\* HuggingFaceEmbedding(model_name=settings.EMBEDDING_MODEL, embed_batch_size=32)
HuggingFaceEmbedding(c) == EMBEDDING_MODEL(c)

\* the length of the vectors an embedding model produces
Dimension(model) ==
    CASE model = "BAAI/bge-m3" -> 1024
      [] model = "intfloat/multilingual-e5-small" -> 384
      [] OTHER -> 1536

(***************************************************************************)
(* The disk and the index handles.                                         *)
(***************************************************************************)
\* the documents of the model
Docs == 1..MaxDocs

\* the documents directory: absent, or holding the first n documents
DocumentDirs ==
    {[exists |-> FALSE, files |-> {}]} \cup {[exists |-> TRUE, files |-> 1..n] : n \in 0..MaxDocs}

\* the files index.storage_context.persist(dir) writes
PersistedFiles ==
    {"docstore.json", "index_store.json", "default__vector_store.json", "graph_store.json",
     "image__vector_store.json"}

\* what is persisted in the index directory: the files, the format of the
\* vector store file, the entries and the model that embedded them
NoStore == [files |-> {}, format |-> "<none>", entries |-> {}, model |-> ""]

\* a chroma collection that does not exist
NoCollection == [created |-> FALSE, entries |-> {}, model |-> ""]

\* the index directory when it does not exist
NoIndexDir == [exists |-> FALSE, chroma |-> FALSE, store |-> NoStore, collection |-> NoCollection]

\* an index handle: its vector store, its entries and the model that embedded them
Index(backend, entries, model) == [backend |-> backend, entries |-> entries, model |-> model]

\* the null result
NoIndex == Index("<none>", {}, "")

\* the arguments create_index may be given: documents=None or a list
DocumentArgs ==
    {[isNone |-> TRUE, docs |-> {}]} \cup {[isNone |-> FALSE, docs |-> 1..n] : n \in 0..MaxDocs}

\* the library calls that may raise in one call of a method
Faults == {"none", "reader", "embed_init", "dimension", "client", "embed", "persist", "load"}

\* what a method does: it returns an index or raises, and leaves the disk
\* and the process-wide embedding model in some state
Done(kind, index, err, dir, embed) ==
    [kind |-> kind, index |-> index, err |-> err, index_dir |-> dir, embed_model |-> embed]

(***************************************************************************)
(* src/src/data_loader.py and src/src/indexer.py.                          *)
(***************************************************************************)
\* DataLoader.load_documents_from_directory(): [] for a missing directory and
\* for a reader that raises, which it does on a directory without files
load_documents_from_directory(docdir, fault) ==
    IF ~docdir.exists THEN {}
    ELSE IF fault = "reader" \/ docdir.files = {} THEN {}
    ELSE docdir.files

\* IndexManager._create_chroma_index(nodes)
_create_chroma_index(nodes, dir, embed, fault) ==
    IF fault = "client" THEN Done("raised", NoIndex, "chromadb", dir, embed)
    ELSE LET opened == [dir EXCEPT !.exists = TRUE, !.chroma = TRUE] IN
         IF "CHROMA_COLLECTION" \notin SettingsAttrs
         THEN Done("raised", NoIndex, "AttributeError", opened, embed)
         ELSE LET created == [opened EXCEPT !.collection.created = TRUE] IN
              IF fault = "embed" THEN Done("raised", NoIndex, "embedding", created, embed)
              ELSE LET entries == dir.collection.entries \cup nodes IN
                   Done("returned", Index("chroma", entries, embed), "",
                        [created EXCEPT !.collection.entries = entries,
                                        !.collection.model = embed],
                        embed)

\* IndexManager._create_faiss_index(nodes)
_create_faiss_index(nodes, dir, embed, fault) ==
    IF fault = "dimension" THEN Done("raised", NoIndex, "AttributeError", dir, embed)
    ELSE IF fault = "embed" THEN Done("raised", NoIndex, "embedding", dir, embed)
    ELSE Done("returned", Index("faiss", nodes, embed), "", dir, embed)

\* IndexManager._persist_index(index): the directory afterwards; a failure
\* is logged and goes no further
_persist_index(index, c, dir, fault) ==
    IF fault = "persist" THEN [dir EXCEPT !.exists = TRUE]
    ELSE IF vector_store_type(c) \in {"simple", "faiss"}
    THEN [dir EXCEPT !.exists = TRUE,
                     !.store = [files |-> PersistedFiles, format |-> index.backend,
                                entries |-> index.entries, model |-> index.model]]
    ELSE [dir EXCEPT !.exists = TRUE]

\* mutation: create_index that configures the embedding model before it looks
\* at the documents
create_index_embed_first(documents, persist, c, docdir, dir, embed, fault) ==
    LET docs == IF documents.isNone THEN load_documents_from_directory(docdir, fault)
                ELSE documents.docs
    IN  IF fault = "embed_init" THEN Done("raised", NoIndex, "embedding", dir, embed)
        ELSE IF docs = {} THEN Done("returned", NoIndex, "", dir, HuggingFaceEmbedding(c))
        ELSE Done("returned", Index("simple", docs, HuggingFaceEmbedding(c)), "",
                  IF persist THEN _persist_index(Index("simple", docs, HuggingFaceEmbedding(c)), c, dir, fault)
                  ELSE dir,
                  HuggingFaceEmbedding(c))

\* IndexManager.create_index(documents, persist)
create_index(documents, persist, c, docdir, dir, embed, fault) ==
    LET docs == IF documents.isNone THEN load_documents_from_directory(docdir, fault)
                ELSE documents.docs
    IN  IF docs = {} THEN Done("returned", NoIndex, "", dir, embed)
        ELSE IF fault = "embed_init" THEN Done("raised", NoIndex, "embedding", dir, embed)
        ELSE LET model == HuggingFaceEmbedding(c)
                 made == CASE vector_store_type(c) = "chroma" ->
                                  _create_chroma_index(docs, dir, model, fault)
                           [] vector_store_type(c) = "faiss" ->
                                  _create_faiss_index(docs, dir, model, fault)
                           [] OTHER ->
                                  IF fault = "embed"
                                  THEN Done("raised", NoIndex, "embedding", dir, model)
                                  ELSE Done("returned", Index("simple", docs, model), "", dir, model)
             IN  IF made.kind = "raised" THEN made
                 ELSE IF persist
                 THEN [made EXCEPT !.index_dir = _persist_index(made.index, c, made.index_dir, fault)]
                 ELSE made

\* IndexManager._load_chroma_index()
_load_chroma_index(c, dir, embed, fault) ==
    IF fault = "embed_init" THEN Done("raised", NoIndex, "embedding", dir, embed)
    ELSE LET model == HuggingFaceEmbedding(c) IN
         IF fault = "client" THEN Done("raised", NoIndex, "chromadb", dir, model)
         ELSE LET opened == [dir EXCEPT !.chroma = TRUE] IN
              IF "CHROMA_COLLECTION" \notin SettingsAttrs
              THEN Done("raised", NoIndex, "AttributeError", opened, model)
              ELSE Done("returned",
                        Index("chroma", dir.collection.entries, dir.collection.model), "",
                        [opened EXCEPT !.collection.created = TRUE], model)

\* IndexManager._load_faiss_index()
_load_faiss_index(dir, embed, fault) ==
    IF "faiss.index" \notin dir.store.files \/ fault = "load"
    THEN Done("raised", NoIndex, "RuntimeError", dir, embed)
    ELSE Done("returned", Index("faiss", dir.store.entries, dir.store.model), "", dir, embed)

\* load_index's else branch: StorageContext.from_defaults(persist_dir=...) and
\* load_index_from_storage
load_index_from_storage(dir, embed, fault) ==
    IF ~(PersistedFiles \subseteq dir.store.files) \/ dir.store.format # "simple" \/ fault = "load"
    THEN Done("raised", NoIndex, "FileNotFoundError", dir, embed)
    ELSE Done("returned", Index("simple", dir.store.entries, dir.store.model), "", dir, embed)

\* mutation: load_index without its try
load_index_no_try(c, dir, embed, fault) ==
    IF ~dir.exists THEN Done("returned", NoIndex, "", dir, embed)
    ELSE CASE vector_store_type(c) = "chroma" -> _load_chroma_index(c, dir, embed, fault)
           [] vector_store_type(c) = "faiss" -> _load_faiss_index(dir, embed, fault)
           [] OTHER -> load_index_from_storage(dir, embed, fault)

\* IndexManager.load_index(): whatever the branch raises is logged and
\* answered with None
load_index(c, dir, embed, fault) ==
    IF ~dir.exists THEN Done("returned", NoIndex, "", dir, embed)
    ELSE LET r == CASE vector_store_type(c) = "chroma" -> _load_chroma_index(c, dir, embed, fault)
                    [] vector_store_type(c) = "faiss" -> _load_faiss_index(dir, embed, fault)
                    [] OTHER -> load_index_from_storage(dir, embed, fault)
         IN  IF r.kind = "raised" THEN Done("returned", NoIndex, "", r.index_dir, r.embed_model)
             ELSE r

\* mutation: rebuild_index that builds without clearing the directory first
rebuild_index_keep(c, docdir, dir, embed, fault) ==
    create_index([isNone |-> TRUE, docs |-> {}], TRUE, c, docdir, dir, embed, fault)

\* IndexManager.rebuild_index(): shutil.rmtree(self.index_dir) when it
\* exists, then create_index()
rebuild_index(c, docdir, dir, embed, fault) ==
    create_index([isNone |-> TRUE, docs |-> {}], TRUE, c, docdir,
                 IF dir.exists THEN NoIndexDir ELSE dir, embed, fault)

\* the objects get_index_stats may be handed: None, an index of LlamaIndex,
\* which has a docstore but no doc_store attribute, and the test's Mock with
\* doc_store set to None, to a store of n documents, or left as a Mock
StatsHandles ==
    {[t |-> "None", doc_store |-> "<no attribute>", docs |-> 0],
     [t |-> "VectorStoreIndex", doc_store |-> "<no attribute>", docs |-> 0],
     [t |-> "Mock", doc_store |-> "None", docs |-> 0],
     [t |-> "Mock", doc_store |-> "Mock", docs |-> 0]}
    \cup {[t |-> "Mock", doc_store |-> "store", docs |-> n] : n \in 0..MaxDocs}

NoHandle == [t |-> "<none>", doc_store |-> "<no attribute>", docs |-> 0]

\* a stats record; {} is the one with no key
Stats(keys, total_docs, vst, struct) ==
    [keys |-> keys, total_docs |-> total_docs, vector_store_type |-> vst, index_type |-> struct]

EmptyStats == Stats({}, 0, "", "")

\* mutation: get_index_stats without its try
get_index_stats_no_try(index, c) ==
    IF index.doc_store \in {"<no attribute>", "Mock"}
    THEN [kind |-> "raised", stats |-> EmptyStats]
    ELSE [kind |-> "returned",
          stats |-> Stats({"total_docs", "vector_store_type", "index_type", "index_dir"},
                          IF index.doc_store = "None" THEN 0 ELSE index.docs,
                          vector_store_type(c), index.t)]

\* IndexManager.get_index_stats(index): index.doc_store raises on an object
\* without the attribute, len(doc_store.docs) on a plain Mock
get_index_stats(index, c) ==
    IF index.doc_store \in {"<no attribute>", "Mock"}
    THEN [kind |-> "returned", stats |-> EmptyStats]
    ELSE [kind |-> "returned",
          stats |-> Stats({"total_docs", "vector_store_type", "index_type", "index_dir"},
                          IF index.doc_store = "None" THEN 0 ELSE index.docs,
                          vector_store_type(c), index.t)]

\* Settings.ensure_directories(): both directories exist afterwards
ensure_directories(docdir, dir) ==
    [documents_dir |-> [docdir EXCEPT !.exists = TRUE], index_dir |-> [dir EXCEPT !.exists = TRUE]]

\* no IndexManager call is running
NoArgs == [documents |-> [isNone |-> TRUE, docs |-> {}], persist |-> FALSE, fault |-> "none",
           handle |-> NoHandle, before |-> [index_dir |-> NoIndexDir, embed_model |-> DefaultEmbedModel]]

NoResult == [kind |-> "none", index |-> NoIndex, err |-> "", stats |-> EmptyStats]

\* no index has been built
NoBuild == [index |-> NoIndex, cfg |-> [v \in CfgVars |-> Unset], fault |-> "none"]

\* the index side of a process that has made no call, on a disk without
\* directories
IxIdle ==
    /\ cfg = [v \in CfgVars |-> Unset]
    /\ documents_dir = [exists |-> FALSE, files |-> {}]
    /\ index_dir = NoIndexDir
    /\ embed_model = DefaultEmbedModel
    /\ args = NoArgs
    /\ result = NoResult
    /\ built = NoBuild

\* no retrieval has been made
NoRetrieval == [engine |-> "none", cutoff |-> FALSE, nodes |-> {}, passed |-> {}]

\* no chat turn has been served
NoConversation == [turns |-> <<>>, mode |-> "none",
                   given |-> [present |-> FALSE, turns |-> <<>>], seen |-> <<>>]

\* no DataLoader has been constructed
NoLoader == [constructed |-> FALSE, raised |-> FALSE, chunk_size |-> 0, chunk_overlap |-> 0,
             chunked |-> FALSE]

\* the service is between requests
NoExchange == [phase |-> "idle"]

\* a process that retrieved nothing, constructed no DataLoader and served no
\* request, over an empty table
SvIdle ==
    /\ retrieval = NoRetrieval
    /\ conversation = NoConversation
    /\ chunk_env = [CHUNK_SIZE |-> Unset, CHUNK_OVERLAP |-> Unset]
    /\ loader = NoLoader
    /\ db = {}
    /\ tasks = <<>>
    /\ http = NoExchange

Init ==
    /\ env \in Environments
    /\ op = "none"
    /\ pc = "idle"
    /\ question = ""
    /\ decision_json = NoValue
    /\ engine = NoEngine
    /\ exc = NoExc
    /\ excAt = "none"
    /\ queries = 0
    /\ rawText = <<>>
    /\ loadsCalls = 0
    /\ loadsArg = <<>>
    /\ data = NoValue
    /\ outcome = Pending
    /\ IxIdle
    /\ SvIdle

(***************************************************************************)
(* src/src/query.py: get_engine and explain_case, step by step.            *)
(***************************************************************************)
\* a caller invokes get_engine()
CallGetEngine ==
    /\ pc = "idle"
    /\ op' = "get_engine"
    /\ pc' = "ollama"
    /\ UNCHANGED <<env, question, decision_json, engine, exc, excAt, queries, rawText,
                   loadsCalls, loadsArg, data, outcome>>
    /\ UNCHANGED ixvars
    /\ UNCHANGED svars

\* a caller invokes explain_case(question, decision_json), which starts with
\* get_engine(top_k=10)
CallExplainCase ==
    /\ pc = "idle"
    /\ op' = "explain_case"
    /\ question' \in Questions
    /\ decision_json' \in DecisionJsons
    /\ pc' = "ollama"
    /\ UNCHANGED <<env, engine, exc, excAt, queries, rawText, loadsCalls, loadsArg, data, outcome>>
    /\ UNCHANGED ixvars
    /\ UNCHANGED svars

\* get_engine's handler: except Exception as exc: raise ... from None
OllamaInitFailed(e) == Raised(RaiseFriendly(e))

\* get_engine: Settings.llm = Ollama(...)
OllamaInit ==
    /\ pc = "ollama"
    /\ \/ /\ pc' = "load_index"
          /\ UNCHANGED <<exc, excAt, outcome>>
       \/ \E e \in Exceptions :
          /\ exc' = e
          /\ excAt' = "ollama"
          /\ outcome' = OllamaInitFailed(e)
          /\ pc' = "done"
    /\ UNCHANGED <<env, op, question, decision_json, engine, queries, rawText,
                   loadsCalls, loadsArg, data>>
    /\ UNCHANGED ixvars
    /\ UNCHANGED svars

\* _load_index's handler for the chroma branch: raise RuntimeError(...) from exc
ChromaLoadFailed(e) ==
    Error("RuntimeError",
          <<"Unable to load ChromaDB collection '", CHROMA_COLLECTION, "' from '",
            CHROMA_PERSIST_DIR, "'. Build the index first with VECTOR_STORE_TYPE=chroma.">>,
          e, e, TRUE)

\* get_engine: index = _load_index(), then the retriever, the synthesizer and
\* the engine; none of it inside a try of get_engine or explain_case
LoadIndex ==
    /\ pc = "load_index"
    /\ \/ \E e \in Exceptions :        \* HuggingFaceEmbedding(...) raises
          /\ exc' = e
          /\ excAt' = "embed"
          /\ outcome' = Raised(RaiseRaw(e))
          /\ pc' = "done"
          /\ UNCHANGED engine
       \/ \E e \in Exceptions :        \* opening the store raises
          /\ exc' = e
          /\ excAt' = "index"
          /\ outcome' = IF VECTOR_STORE_TYPE = "chroma"
                        THEN Raised(ChromaLoadFailed(e))
                        ELSE Raised(RaiseRaw(e))
          /\ pc' = "done"
          /\ UNCHANGED engine
       \/ /\ op = "get_engine"
          /\ outcome' = Returned(EngineHandle)
          /\ pc' = "done"
          /\ UNCHANGED <<engine, exc, excAt>>
       \/ /\ op = "explain_case"
          /\ engine' \in EngineBehaviours
          /\ pc' = "format"
          /\ UNCHANGED <<exc, excAt, outcome>>
    /\ UNCHANGED <<env, op, question, decision_json, queries, rawText, loadsCalls, loadsArg, data>>
    /\ UNCHANGED ixvars
    /\ UNCHANGED svars

\* explain_case: prompt = PROMPT_TEMPLATE.format(decision_json=json.dumps(...),
\* question=question), outside every try
FormatPrompt ==
    /\ pc = "format"
    /\ LET r == BuildPrompt(question, decision_json) IN
       IF r.raised
       THEN /\ outcome' = Raised(r.err)
            /\ pc' = "done"
       ELSE /\ pc' = "query"
            /\ UNCHANGED outcome
    /\ UNCHANGED <<env, op, question, decision_json, engine, exc, excAt, queries, rawText,
                   loadsCalls, loadsArg, data>>
    /\ UNCHANGED ixvars
    /\ UNCHANGED svars

(***************************************************************************)
(* The rest of explain_case, lines 173-181.  FormatPrompt never leaves     *)
(* pc = "query": the template's schema block opens a replacement field     *)
(* named ' "summary"', so format raises KeyError for every argument.  The  *)
(* three steps below are therefore no part of Next.                        *)
(***************************************************************************)
\* explain_case's handler: except Exception as exc: raise ... from None
QueryFailed(e) == Raised(RaiseFriendly(e))

\* explain_case: raw = engine.query(prompt); text = str(raw)
EngineQuery ==
    /\ pc = "query"
    /\ queries' = queries + 1
    /\ IF engine.raises
       THEN /\ exc' = engine.exc
            /\ excAt' = "query"
            /\ outcome' = QueryFailed(engine.exc)
            /\ pc' = "done"
            /\ UNCHANGED rawText
       ELSE /\ rawText' = engine.text
            /\ pc' = "extract"
            /\ UNCHANGED <<exc, excAt, outcome>>
    /\ UNCHANGED <<env, op, question, decision_json, engine, loadsCalls, loadsArg, data>>
    /\ UNCHANGED ixvars
    /\ UNCHANGED svars

\* explain_case: data = extract_json(text)
Extract ==
    /\ pc = "extract"
    /\ LET r == extract_json(rawText) IN
       /\ loadsCalls' = loadsCalls + r.loads
       /\ loadsArg' = r.arg
       /\ IF r.raised
          THEN /\ outcome' = Raised(r.err)
               /\ pc' = "done"
               /\ UNCHANGED data
          ELSE /\ data' = r.val
               /\ pc' = "validate"
               /\ UNCHANGED outcome
    /\ UNCHANGED <<env, op, question, decision_json, engine, exc, excAt, queries, rawText>>
    /\ UNCHANGED ixvars
    /\ UNCHANGED svars

\* explain_case: validated = AssistantResponse.model_validate(data); return validated
Validate ==
    /\ pc = "validate"
    /\ LET r == model_validate(data) IN
       outcome' = IF r.raised THEN Raised(r.err) ELSE Returned(r.val)
    /\ pc' = "done"
    /\ UNCHANGED <<env, op, question, decision_json, engine, exc, excAt, queries, rawText,
                   loadsCalls, loadsArg, data>>
    /\ UNCHANGED ixvars
    /\ UNCHANGED svars

(***************************************************************************)
(* src/src/query_engine.py: the QueryEngineManager entry points.           *)
(***************************************************************************)
\* QueryEngineManager.query: query_engine.query(question) is not in a try
QMQuery ==
    /\ pc = "idle"
    /\ op' = "qm_query"
    /\ queries' = 1
    /\ \/ /\ outcome' = Returned(ResultDict)
          /\ UNCHANGED <<exc, excAt>>
       \/ \E e \in Exceptions :
          /\ exc' = e
          /\ excAt' = "query"
          /\ outcome' = Raised(RaiseRaw(e))
    /\ pc' = "done"
    /\ UNCHANGED <<env, question, decision_json, engine, rawText, loadsCalls, loadsArg, data>>
    /\ UNCHANGED ixvars
    /\ UNCHANGED svars

\* QueryEngineManager.chat: chat_engine.chat(message) is not in a try
QMChat ==
    /\ pc = "idle"
    /\ op' = "qm_chat"
    /\ queries' = 1
    /\ \/ /\ outcome' = Returned(ResultDict)
          /\ UNCHANGED <<exc, excAt>>
       \/ \E e \in Exceptions :
          /\ exc' = e
          /\ excAt' = "query"
          /\ outcome' = Raised(RaiseRaw(e))
    /\ pc' = "done"
    /\ UNCHANGED <<env, question, decision_json, engine, rawText, loadsCalls, loadsArg, data>>
    /\ UNCHANGED ixvars
    /\ UNCHANGED svars

\* QueryEngineManager.get_query_suggestions: a failure of llm.complete is
\* logged and answered with []
GetQuerySuggestions ==
    /\ pc = "idle"
    /\ op' = "get_query_suggestions"
    /\ queries' = 1
    /\ \/ /\ outcome' = Returned(Suggestions)
          /\ UNCHANGED <<exc, excAt>>
       \/ \E e \in Exceptions :
          /\ exc' = e
          /\ excAt' = "llm"
          /\ outcome' = Returned(JsonEmptyList)
    /\ pc' = "done"
    /\ UNCHANGED <<env, question, decision_json, engine, rawText, loadsCalls, loadsArg, data>>
    /\ UNCHANGED ixvars
    /\ UNCHANGED svars

\* the call is over and the caller has its result: the next call starts afresh
Return ==
    /\ pc = "done"
    /\ op' = "none"
    /\ pc' = "idle"
    /\ exc' = NoExc
    /\ excAt' = "none"
    /\ queries' = 0
    /\ rawText' = <<>>
    /\ loadsCalls' = 0
    /\ loadsArg' = <<>>
    /\ data' = NoValue
    /\ outcome' = Pending
    /\ question' = ""
    /\ decision_json' = NoValue
    /\ engine' = NoEngine
    /\ UNCHANGED env
    /\ UNCHANGED ixvars
    /\ UNCHANGED svars

Next ==
    \/ CallGetEngine
    \/ CallExplainCase
    \/ OllamaInit
    \/ LoadIndex
    \/ FormatPrompt
    \/ QMQuery
    \/ QMChat
    \/ GetQuerySuggestions
    \/ Return

Spec == Init /\ [][Next]_vars

(***************************************************************************)
(* The extractor alone: extract_json applied to every text of the          *)
(* extractor alphabet.                                                     *)
(***************************************************************************)
InitExtract ==
    /\ env = EmptyEnv
    /\ op = "none"
    /\ pc = "idle"
    /\ question = ""
    /\ decision_json = NoValue
    /\ engine = NoEngine
    /\ exc = NoExc
    /\ excAt = "none"
    /\ queries = 0
    /\ rawText \in ExtractInputs
    /\ loadsCalls = 0
    /\ loadsArg = <<>>
    /\ data = NoValue
    /\ outcome = Pending
    /\ IxIdle
    /\ SvIdle

\* a caller invokes extract_json(rawText)
CallExtractJson ==
    /\ pc = "idle"
    /\ op' = "extract_json"
    /\ LET r == extract_json(rawText) IN
       /\ loadsCalls' = r.loads
       /\ loadsArg' = r.arg
       /\ outcome' = IF r.raised THEN Raised(r.err) ELSE Returned(r.val)
    /\ pc' = "done"
    /\ UNCHANGED <<env, question, decision_json, engine, exc, excAt, queries, rawText, data>>
    /\ UNCHANGED ixvars
    /\ UNCHANGED svars

NextExtract == CallExtractJson

SpecExtract == InitExtract /\ [][NextExtract]_vars

(***************************************************************************)
(* The schema alone: AssistantResponse.model_validate applied to every     *)
(* dict of ValidateInputs.                                                 *)
(***************************************************************************)
InitValidate ==
    /\ env = EmptyEnv
    /\ op = "none"
    /\ pc = "idle"
    /\ question = ""
    /\ decision_json = NoValue
    /\ engine = NoEngine
    /\ exc = NoExc
    /\ excAt = "none"
    /\ queries = 0
    /\ rawText = <<>>
    /\ loadsCalls = 0
    /\ loadsArg = <<>>
    /\ data \in ValidateInputs
    /\ outcome = Pending
    /\ IxIdle
    /\ SvIdle

\* a caller invokes AssistantResponse.model_validate(data)
CallModelValidate ==
    /\ pc = "idle"
    /\ op' = "model_validate"
    /\ LET r == model_validate(data) IN
       outcome' = IF r.raised THEN Raised(r.err) ELSE Returned(r.val)
    /\ pc' = "done"
    /\ UNCHANGED <<env, question, decision_json, engine, exc, excAt, queries, rawText,
                   loadsCalls, loadsArg, data>>
    /\ UNCHANGED ixvars
    /\ UNCHANGED svars

NextValidate == CallModelValidate

SpecValidate == InitValidate /\ [][NextValidate]_vars

(***************************************************************************)
(* The index side: the IndexManager of src/src/indexer.py in a process     *)
(* configured by config/settings.py, over a disk that outlives it.         *)
(***************************************************************************)
InitIndex ==
    /\ env = EmptyEnv
    /\ op = "none"
    /\ pc = "idle"
    /\ question = ""
    /\ decision_json = NoValue
    /\ engine = NoEngine
    /\ exc = NoExc
    /\ excAt = "none"
    /\ queries = 0
    /\ rawText = <<>>
    /\ loadsCalls = 0
    /\ loadsArg = <<>>
    /\ data = NoValue
    /\ outcome = Pending
    /\ cfg \in Configurations
    /\ documents_dir \in DocumentDirs
    /\ index_dir = NoIndexDir
    /\ embed_model = DefaultEmbedModel
    /\ args = NoArgs
    /\ result = NoResult
    /\ built = NoBuild
    /\ SvIdle

\* the arguments of a call and the state it started in
Args(documents, persist, fault, handle) ==
    [documents |-> documents, persist |-> persist, fault |-> fault, handle |-> handle,
     before |-> [index_dir |-> index_dir, embed_model |-> embed_model]]

\* a caller invokes IndexManager().create_index(documents, persist)
CallCreateIndex ==
    /\ pc = "idle"
    /\ \E d \in DocumentArgs, p \in BOOLEAN, f \in Faults :
          LET r == create_index(d, p, cfg, documents_dir, index_dir, embed_model, f) IN
          /\ args' = Args(d, p, f, NoHandle)
          /\ result' = [kind |-> r.kind, index |-> r.index, err |-> r.err, stats |-> EmptyStats]
          /\ index_dir' = r.index_dir
          /\ embed_model' = r.embed_model
          /\ built' = IF r.kind = "returned" /\ r.index # NoIndex /\ p
                      THEN IF f = "none" THEN [index |-> r.index, cfg |-> cfg, fault |-> f]
                           ELSE NoBuild
                      ELSE built
    /\ op' = "create_index"
    /\ pc' = "done"
    /\ UNCHANGED <<cfg, documents_dir>>
    /\ UNCHANGED qvars
    /\ UNCHANGED svars

\* a caller invokes IndexManager().load_index()
CallLoadIndex ==
    /\ pc = "idle"
    /\ \E f \in Faults :
          LET r == load_index(cfg, index_dir, embed_model, f) IN
          /\ args' = Args([isNone |-> TRUE, docs |-> {}], FALSE, f, NoHandle)
          /\ result' = [kind |-> r.kind, index |-> r.index, err |-> r.err, stats |-> EmptyStats]
          /\ index_dir' = r.index_dir
          /\ embed_model' = r.embed_model
    /\ op' = "load_index"
    /\ pc' = "done"
    /\ UNCHANGED <<cfg, documents_dir, built>>
    /\ UNCHANGED qvars
    /\ UNCHANGED svars

\* a caller invokes IndexManager().rebuild_index()
CallRebuildIndex ==
    /\ pc = "idle"
    /\ \E f \in Faults :
          LET r == rebuild_index(cfg, documents_dir, index_dir, embed_model, f) IN
          /\ args' = Args([isNone |-> TRUE, docs |-> {}], TRUE, f, NoHandle)
          /\ result' = [kind |-> r.kind, index |-> r.index, err |-> r.err, stats |-> EmptyStats]
          /\ index_dir' = r.index_dir
          /\ embed_model' = r.embed_model
          /\ built' = IF r.kind = "returned" /\ r.index # NoIndex /\ f = "none"
                      THEN [index |-> r.index, cfg |-> cfg, fault |-> f]
                      ELSE NoBuild
    /\ op' = "rebuild_index"
    /\ pc' = "done"
    /\ UNCHANGED <<cfg, documents_dir>>
    /\ UNCHANGED qvars
    /\ UNCHANGED svars

\* a caller invokes IndexManager().get_index_stats(index)
CallGetIndexStats ==
    /\ pc = "idle"
    /\ \E h \in StatsHandles :
          LET r == get_index_stats(h, cfg) IN
          /\ args' = Args([isNone |-> TRUE, docs |-> {}], FALSE, "none", h)
          /\ result' = [kind |-> r.kind, index |-> NoIndex, err |-> "", stats |-> r.stats]
    /\ op' = "get_index_stats"
    /\ pc' = "done"
    /\ UNCHANGED <<cfg, documents_dir, index_dir, embed_model, built>>
    /\ UNCHANGED qvars
    /\ UNCHANGED svars

\* a caller invokes settings.ensure_directories()
CallEnsureDirectories ==
    /\ pc = "idle"
    /\ ~(documents_dir.exists /\ index_dir.exists)
    /\ documents_dir' = ensure_directories(documents_dir, index_dir).documents_dir
    /\ index_dir' = ensure_directories(documents_dir, index_dir).index_dir
    /\ UNCHANGED <<op, pc, cfg, embed_model, args, result, built>>
    /\ UNCHANGED qvars
    /\ UNCHANGED svars

\* the operator adds documents to the documents directory or removes them
EditDocuments ==
    /\ pc = "idle"
    /\ documents_dir' \in DocumentDirs \ {documents_dir}
    /\ UNCHANGED <<op, pc, cfg, index_dir, embed_model, args, result, built>>
    /\ UNCHANGED qvars
    /\ UNCHANGED svars

\* the process ends and another starts, with its own environment and no
\* embedding model set; the disk stays
NewProcess ==
    /\ pc = "idle"
    /\ cfg' \in Configurations
    /\ embed_model' = DefaultEmbedModel
    /\ cfg' # cfg \/ embed_model' # embed_model
    /\ UNCHANGED <<op, pc, documents_dir, index_dir, args, result, built>>
    /\ UNCHANGED qvars
    /\ UNCHANGED svars

\* the call is over and the caller has its result
ReturnIndex ==
    /\ pc = "done"
    /\ op' = "none"
    /\ pc' = "idle"
    /\ args' = NoArgs
    /\ result' = NoResult
    /\ UNCHANGED <<cfg, documents_dir, index_dir, embed_model, built>>
    /\ UNCHANGED qvars
    /\ UNCHANGED svars

NextIndex ==
    \/ CallCreateIndex
    \/ CallLoadIndex
    \/ CallRebuildIndex
    \/ CallGetIndexStats
    \/ CallEnsureDirectories
    \/ EditDocuments
    \/ NewProcess
    \/ ReturnIndex

SpecIndex == InitIndex /\ [][NextIndex]_vars

(***************************************************************************)
(* Retrieval and chat: the QueryEngineManager of src/src/query_engine.py   *)
(* and the engine get_engine of src/src/query.py builds.  A similarity     *)
(* score is written in hundredths: 70 is the score 0.7.                    *)
(***************************************************************************)
\* the chunks of the index a retriever can return
Chunks == {"c1", "c2"}

\* the similarity scores a retriever can give a chunk
Scores == {65, 70, 90}

\* a NodeWithScore
NodeWithScore(id, score) == [id |-> id, score |-> score]

\* what VectorIndexRetriever can return for a query: each chunk at most once
RetrievedNodes ==
    {ns \in SUBSET {NodeWithScore(c, sc) : c \in Chunks, sc \in Scores} :
        \A n1 \in ns, n2 \in ns : n1.id = n2.id => n1 = n2}

\* SimilarityPostprocessor(similarity_cutoff=0.7) keeps the nodes at or above
\* the cutoff
similarity_cutoff == 70

SimilarityPostprocessor(nodes) == {n \in nodes : n.score >= similarity_cutoff}

\* RetrieverQueryEngine(retriever, response_synthesizer, node_postprocessors)
RetrieverQueryEngine(node_postprocessors) ==
    [class |-> "RetrieverQueryEngine", node_postprocessors |-> node_postprocessors]

\* QueryEngineManager.create_query_engine(use_postprocessor=True)
create_query_engine(use_postprocessor) ==
    LET postprocessors == IF use_postprocessor THEN <<"SimilarityPostprocessor">> ELSE <<>>
    IN  RetrieverQueryEngine(postprocessors)

\* the engine get_engine builds: a retriever and a synthesizer, nothing else
get_engine_query_engine == RetrieverQueryEngine(<<>>)

\* query_engine.query: the retrieved nodes go through the postprocessors of
\* the engine, and what is left is synthesized and becomes source_nodes
source_nodes(query_engine, nodes) ==
    IF \E i \in 1..Len(query_engine.node_postprocessors) :
          query_engine.node_postprocessors[i] = "SimilarityPostprocessor"
    THEN SimilarityPostprocessor(nodes)
    ELSE nodes

\* a retrieval through an engine
Retrieval(name, query_engine, nodes) ==
    [engine |-> name,
     cutoff |-> Len(query_engine.node_postprocessors) > 0,
     nodes |-> nodes,
     passed |-> source_nodes(query_engine, nodes)]

\* QueryEngineManager.query(question): the sources of the result
QueryEngineManager_query(nodes) ==
    Retrieval("QueryEngineManager.query", create_query_engine(TRUE), nodes)

\* the chat modes a caller passes
ChatModes == {"condense_question", "simple", "context"}

\* the messages of a conversation
Messages == {"m1", "m2"}

\* the chat_history argument: None, or the turns the caller passes
NoHistory == NoConversation.given

ChatHistory(turns) == [present |-> TRUE, turns |-> turns]

\* QueryEngineManager.create_chat_engine(chat_mode): a new engine, whose
\* memory is empty
create_chat_engine(chat_mode) ==
    IF chat_mode = "simple"
    THEN [class |-> "SimpleChatEngine", memory |-> <<>>,
          query_engine |-> RetrieverQueryEngine(<<>>)]
    ELSE [class |-> "CondenseQuestionChatEngine", memory |-> <<>>,
          query_engine |-> create_query_engine(TRUE)]

\* QueryEngineManager.chat(message, chat_history, chat_mode): the engine is
\* created by the call, chat_history is not handed to it, and the message is
\* condensed against the memory of the engine
QueryEngineManager_chat(message, chat_history, chat_mode, turns, nodes) ==
    LET chat_engine == create_chat_engine(chat_mode) IN
    [conversation |-> [turns |-> Append(turns, message),
                       mode |-> chat_engine.class,
                       given |-> chat_history,
                       seen |-> chat_engine.memory],
     retrieval |-> IF chat_engine.class = "CondenseQuestionChatEngine"
                   THEN Retrieval("QueryEngineManager.chat", chat_engine.query_engine, nodes)
                   ELSE NoRetrieval]

InitManager ==
    /\ env = EmptyEnv
    /\ op = "none"
    /\ pc = "idle"
    /\ question = ""
    /\ decision_json = NoValue
    /\ engine = NoEngine
    /\ exc = NoExc
    /\ excAt = "none"
    /\ queries = 0
    /\ rawText = <<>>
    /\ loadsCalls = 0
    /\ loadsArg = <<>>
    /\ data = NoValue
    /\ outcome = Pending
    /\ IxIdle
    /\ SvIdle

\* a caller invokes QueryEngineManager.query(question)
ManagerQuery ==
    /\ \E nodes \in RetrievedNodes : retrieval' = QueryEngineManager_query(nodes)
    /\ UNCHANGED <<conversation, chunk_env, loader, db, tasks, http>>
    /\ UNCHANGED <<op, pc>>
    /\ UNCHANGED qvars
    /\ UNCHANGED ixvars

\* a caller queries the engine get_engine returned, as explain_case does
GetEngineQuery ==
    /\ \E nodes \in RetrievedNodes :
          retrieval' = Retrieval("get_engine", get_engine_query_engine, nodes)
    /\ UNCHANGED <<conversation, chunk_env, loader, db, tasks, http>>
    /\ UNCHANGED <<op, pc>>
    /\ UNCHANGED qvars
    /\ UNCHANGED ixvars

\* a caller invokes QueryEngineManager.chat(message, chat_history, chat_mode)
\* with the next message of its conversation
ManagerChat ==
    /\ Len(conversation.turns) < MaxTurns
    /\ \E message \in Messages, chat_mode \in ChatModes, nodes \in RetrievedNodes,
          chat_history \in {NoHistory, ChatHistory(conversation.turns)} :
          LET r == QueryEngineManager_chat(message, chat_history, chat_mode,
                                           conversation.turns, nodes) IN
          /\ conversation' = r.conversation
          /\ retrieval' = r.retrieval
    /\ UNCHANGED <<chunk_env, loader, db, tasks, http>>
    /\ UNCHANGED <<op, pc>>
    /\ UNCHANGED qvars
    /\ UNCHANGED ixvars

NextManager ==
    \/ ManagerQuery
    \/ GetEngineQuery
    \/ ManagerChat

SpecManager == InitManager /\ [][NextManager]_vars

(***************************************************************************)
(* Chunking: CHUNK_SIZE and CHUNK_OVERLAP of config/settings.py and the    *)
(* DataLoader of src/src/data_loader.py.                                   *)
(***************************************************************************)
\* what the environment can hold for CHUNK_SIZE and CHUNK_OVERLAP
ChunkTexts == {Unset, "-1", "0", "20", "512", "1024", "abc"}

ChunkEnvironments == [{"CHUNK_SIZE", "CHUNK_OVERLAP"} -> ChunkTexts]

\* int(text): the texts of ChunkTexts that are numerals, and their values
Numerals == {<<"-1", -1>>, <<"0", 0>>, <<"20", 20>>, <<"512", 512>>, <<"1024", 1024>>}

IsNumeral(text) == \E p \in Numerals : p[1] = text

int(text) == (CHOOSE p \in Numerals : p[1] = text)[2]

\* os.getenv(name, default) over the chunk environment
chunk_getenv(e, name, default) == IF e[name] = Unset THEN default ELSE e[name]

\* CHUNK_SIZE: int = int(os.getenv("CHUNK_SIZE", "1024")), and CHUNK_OVERLAP
\* likewise with "20"; the class body raises ValueError on a text that is no
\* numeral, and nothing else is checked
ChunkSettings(e) ==
    LET size == chunk_getenv(e, "CHUNK_SIZE", "1024")
        overlap == chunk_getenv(e, "CHUNK_OVERLAP", "20")
    IN  IF IsNumeral(size) /\ IsNumeral(overlap)
        THEN [raised |-> FALSE, CHUNK_SIZE |-> int(size), CHUNK_OVERLAP |-> int(overlap)]
        ELSE [raised |-> TRUE, CHUNK_SIZE |-> 0, CHUNK_OVERLAP |-> 0]

\* SentenceSplitter(chunk_size, chunk_overlap): the constructor of the library
\* refuses a chunk_size that is not positive, a negative chunk_overlap and a
\* chunk_overlap larger than chunk_size
SentenceSplitter(chunk_size, chunk_overlap) ==
    IF chunk_size <= 0 \/ chunk_overlap < 0 \/ chunk_overlap > chunk_size
    THEN [raised |-> TRUE] ELSE [raised |-> FALSE]

\* DataLoader(): the two settings are copied and the splitter is built from them
DataLoader(e) ==
    LET st == ChunkSettings(e) IN
    IF st.raised \/ SentenceSplitter(st.CHUNK_SIZE, st.CHUNK_OVERLAP).raised
    THEN [constructed |-> FALSE, raised |-> TRUE, chunk_size |-> 0, chunk_overlap |-> 0,
          chunked |-> FALSE]
    ELSE [constructed |-> TRUE, raised |-> FALSE, chunk_size |-> st.CHUNK_SIZE,
          chunk_overlap |-> st.CHUNK_OVERLAP, chunked |-> FALSE]

\* DataLoader.create_nodes(documents): an empty list is returned as it is,
\* anything else goes through the splitter
create_nodes(l, documents) ==
    IF documents = {} THEN l ELSE [l EXCEPT !.chunked = TRUE]

InitLoader ==
    /\ env = EmptyEnv
    /\ op = "none"
    /\ pc = "idle"
    /\ question = ""
    /\ decision_json = NoValue
    /\ engine = NoEngine
    /\ exc = NoExc
    /\ excAt = "none"
    /\ queries = 0
    /\ rawText = <<>>
    /\ loadsCalls = 0
    /\ loadsArg = <<>>
    /\ data = NoValue
    /\ outcome = Pending
    /\ IxIdle
    /\ retrieval = NoRetrieval
    /\ conversation = NoConversation
    /\ chunk_env \in ChunkEnvironments
    /\ loader = NoLoader
    /\ db = {}
    /\ tasks = <<>>
    /\ http = NoExchange

\* the process constructs a DataLoader, as IndexManager.__init__ does
ConstructDataLoader ==
    /\ ~loader.constructed
    /\ ~loader.raised
    /\ loader' = DataLoader(chunk_env)
    /\ UNCHANGED <<retrieval, conversation, chunk_env, db, tasks, http>>
    /\ UNCHANGED <<op, pc>>
    /\ UNCHANGED qvars
    /\ UNCHANGED ixvars

\* the process chunks documents with its DataLoader
CreateNodes ==
    /\ loader.constructed
    /\ \E documents \in SUBSET Docs : loader' = create_nodes(loader, documents)
    /\ UNCHANGED <<retrieval, conversation, chunk_env, db, tasks, http>>
    /\ UNCHANGED <<op, pc>>
    /\ UNCHANGED qvars
    /\ UNCHANGED ixvars

NextLoader ==
    \/ ConstructDataLoader
    \/ CreateNodes

SpecLoader == InitLoader /\ [][NextLoader]_vars

(***************************************************************************)
(* The scoring service: POST /api/v1/score/request of                      *)
(* src/src/api/routes/scoring.py behind the validation of                  *)
(* src/src/api/schemas/payload.py and the handler of src/src/api/main.py.  *)
(* Amounts are whole currency units; a probability is written in           *)
(* hundredths: 60 is 0.6.                                                  *)
(***************************************************************************)
\* a required field the request body does not carry
Missing == "<missing>"

\* customer identifiers, as the pieces they are written with
CustomerIds == {<<"cust_", "new", "_999">>, <<"cust_", "existing", "_123">>,
                <<"CUST_", "EXISTING", "_7">>}

RequestIds == {"req_1", "req_2"}

\* the request bodies a client posts
ScoringRequests ==
    [request_id : RequestIds,
     customer_id : CustomerIds,
     demographics : [age : {17, 30, 121}, employment_status : {"Employed", Missing}],
     financials : [monthly_income : {-1, 1000, 5000}, monthly_expenses : {-5, 0}],
     loan_details : [loan_amount : {0, 20000, 120000}, loan_term_months : {0, 24, 361},
                     loan_purpose : {"Personal"}]]

\* the validation of ScoringRequest: the locations of the fields pydantic refuses
ValidationErrors(payload) ==
    {loc \in {"demographics.age", "demographics.employment_status",
              "financials.monthly_income", "financials.monthly_expenses",
              "loan_details.loan_amount", "loan_details.loan_term_months",
              "loan_details.loan_purpose"} :
        \/ loc = "demographics.age"
             /\ ~(payload.demographics.age >= 18 /\ payload.demographics.age <= 120)
        \/ loc = "demographics.employment_status"
             /\ payload.demographics.employment_status = Missing
        \/ loc = "financials.monthly_income" /\ ~(payload.financials.monthly_income >= 0)
        \/ loc = "financials.monthly_expenses" /\ ~(payload.financials.monthly_expenses >= 0)
        \/ loc = "loan_details.loan_amount" /\ ~(payload.loan_details.loan_amount > 0)
        \/ loc = "loan_details.loan_term_months"
             /\ ~(payload.loan_details.loan_term_months > 0
                  /\ payload.loan_details.loan_term_months <= 360)
        \/ loc = "loan_details.loan_purpose" /\ payload.loan_details.loan_purpose = Missing}

\* str.lower() on a customer identifier, piece by piece
customer_lower(customer_id) ==
    [i \in 1..Len(customer_id) |->
        IF customer_id[i] = "CUST_" THEN "cust_"
        ELSE IF customer_id[i] = "EXISTING" THEN "existing"
        ELSE customer_id[i]]

\* FeatureMergerService.merge_features(customer_id, db)
merge_features(customer_id) ==
    LET is_known == \E i \in 1..Len(customer_id) : customer_lower(customer_id)[i] = "existing"
    IN  IF is_known
        THEN [historical_defaults |-> 0, credit_bureau_score |-> 750, is_thin_file |-> FALSE,
              months_since_last_delinquency |-> 36]
        ELSE [historical_defaults |-> -1, credit_bureau_score |-> 600, is_thin_file |-> TRUE,
              months_since_last_delinquency |-> -1]

\* the feature records run_inference can be handed: those of merge_features,
\* and records with other bureau scores
MergedFeatures ==
    [historical_defaults : {0}, credit_bureau_score : {600, 649, 650, 651, 700, 701, 750},
     is_thin_file : BOOLEAN, months_since_last_delinquency : {36}]
    \cup {merge_features(c) : c \in CustomerIds}

\* max and min of two numbers
max(a, b) == IF a >= b THEN a ELSE b

min(a, b) == IF a <= b THEN a ELSE b

\* the same heuristic with the thin-file term added instead of subtracted
run_inference_penalty_added(merged_features, payload) ==
    LET raw_income == payload.financials.monthly_income
        raw_loan == payload.loan_details.loan_amount
        p1 == 50 + (IF 24 * raw_income > raw_loan THEN 20 ELSE 0)
        p2 == p1 + (IF merged_features.credit_bureau_score > 700 THEN 20
                    ELSE IF merged_features.credit_bureau_score < 650 THEN -20 ELSE 0)
        p3 == p2 + (IF merged_features.is_thin_file THEN 15 ELSE 0)
        prob == max(1, min(99, p3))
    IN  [approved |-> prob > 60, probability_score |-> prob]

\* ModelRunnerService.run_inference(merged_features, payload); the comparison
\* raw_income > raw_loan / 24 is made on the amounts multiplied out
run_inference(merged_features, payload) ==
    LET raw_income == payload.financials.monthly_income
        raw_loan == payload.loan_details.loan_amount
        bureau_score == merged_features.credit_bureau_score
        is_thin_file == merged_features.is_thin_file
        p1 == 50 + (IF 24 * raw_income > raw_loan THEN 20 ELSE 0)
        p2 == p1 + (IF bureau_score > 700 THEN 20 ELSE IF bureau_score < 650 THEN -20 ELSE 0)
        p3 == p2 - (IF is_thin_file THEN 15 ELSE 0)
        prob == max(1, min(99, p3))
    IN  [approved |-> prob > 60, probability_score |-> prob]

\* the steps that can fail for a reason outside the request
ApiFaults == {"none", "merge", "inference", "commit"}

\* a response body: the fields of ScoringResponse, and detail and errors
Body(detail, errors, request_id, approved, probability_score, is_thin_file) ==
    [detail |-> detail, errors |-> errors, request_id |-> request_id,
     approved |-> approved, probability_score |-> probability_score,
     is_thin_file |-> is_thin_file]

\* what serving a request did: the response, the steps taken in their order,
\* the table and the background tasks afterwards
Served(status, body, trace, table, scheduled) ==
    [status |-> status, body |-> body, trace |-> trace, table |-> table,
     scheduled |-> scheduled]

\* CreditScoreResult(...)
CreditScoreResult(request_id, customer_id, approved, probability_score, is_thin_file) ==
    [request_id |-> request_id, customer_id |-> customer_id, approved |-> approved,
     probability_score |-> probability_score, is_thin_file |-> is_thin_file]

\* db.commit() of a new row: the unique index on request_id refuses a second
\* row with a request_id the table holds
commit_fails(table, row, fault) ==
    fault = "commit" \/ \E r \in table : r.request_id = row.request_id

\* the except branch: HTTPException(status_code=500, ...)
InternalServerError(trace, table) ==
    Served(500, Body("Internal Server Error during scoring.", {}, "", FALSE, 0, FALSE),
           Append(trace, "HTTPException"), table, <<>>)

\* the task background_tasks.add_task is given
AuditTask(response, customer_id) ==
    [fn |-> "_audit_log_async",
     payload |-> [request_id |-> response.request_id, customer_id |-> customer_id,
                  decision |-> response.approved, score |-> response.probability_score]]

\* the same endpoint with the audit task scheduled before the row is committed
request_credit_score_audit_first(payload, fault, table) ==
    IF fault = "merge" THEN InternalServerError(<<>>, table)
    ELSE IF fault = "inference" THEN InternalServerError(<<"merge_features">>, table)
    ELSE
      LET merged_features == merge_features(payload.customer_id)
          model_result == run_inference(merged_features, payload)
          response == Body("", {}, payload.request_id, model_result.approved,
                           model_result.probability_score, merged_features.is_thin_file)
          db_result == CreditScoreResult(response.request_id, payload.customer_id,
                                         response.approved, response.probability_score,
                                         merged_features.is_thin_file)
      IN  IF commit_fails(table, db_result, fault)
          THEN Served(500, Body("Internal Server Error during scoring.", {}, "", FALSE, 0, FALSE),
                      <<"merge_features", "run_inference", "add_task", "add", "HTTPException">>,
                      table, <<AuditTask(response, payload.customer_id)>>)
          ELSE Served(200, response,
                      <<"merge_features", "run_inference", "add_task", "add", "commit", "return">>,
                      table \cup {db_result}, <<AuditTask(response, payload.customer_id)>>)

\* request_credit_score(payload, background_tasks, db): the endpoint
request_credit_score(payload, fault, table) ==
    IF fault = "merge" THEN InternalServerError(<<>>, table)
    ELSE IF fault = "inference" THEN InternalServerError(<<"merge_features">>, table)
    ELSE
      LET merged_features == merge_features(payload.customer_id)
          model_result == run_inference(merged_features, payload)
          response == Body("", {}, payload.request_id, model_result.approved,
                           model_result.probability_score, merged_features.is_thin_file)
          db_result == CreditScoreResult(response.request_id, payload.customer_id,
                                         response.approved, response.probability_score,
                                         merged_features.is_thin_file)
      IN  IF commit_fails(table, db_result, fault)
          THEN InternalServerError(<<"merge_features", "run_inference", "add">>, table)
          ELSE Served(200, response,
                      <<"merge_features", "run_inference", "add", "commit", "add_task", "return">>,
                      table \cup {db_result}, <<AuditTask(response, payload.customer_id)>>)

\* validation_exception_handler(request, exc)
validation_exception_handler(errors, table) ==
    Served(422, Body("Validation Failed. See logs or DLQ.", errors, "", FALSE, 0, FALSE),
           <<"validation_exception_handler">>, table, <<>>)

\* the same application without the upper limit on the loan term
post_score_request_no_term_limit(payload, fault, table) ==
    LET errors == ValidationErrors(payload) \ {"loan_details.loan_term_months"} IN
    IF errors # {} \/ payload.loan_details.loan_term_months <= 0
    THEN validation_exception_handler(errors \cup {"loan_details.loan_term_months"}, table)
    ELSE request_credit_score(payload, fault, table)

\* the application serving POST /api/v1/score/request: FastAPI validates the
\* body and calls the endpoint only with a body that passed
post_score_request(payload, fault, table) ==
    LET errors == ValidationErrors(payload) IN
    IF errors # {}
    THEN validation_exception_handler(errors, table)
    ELSE request_credit_score(payload, fault, table)

InitScoring ==
    /\ env = EmptyEnv
    /\ op = "none"
    /\ pc = "idle"
    /\ question = ""
    /\ decision_json = NoValue
    /\ engine = NoEngine
    /\ exc = NoExc
    /\ excAt = "none"
    /\ queries = 0
    /\ rawText = <<>>
    /\ loadsCalls = 0
    /\ loadsArg = <<>>
    /\ data = NoValue
    /\ outcome = Pending
    /\ IxIdle
    /\ SvIdle

\* a client posts a request and the application serves it; a step can fail
\* only in a request whose body reaches the endpoint
PostScoreRequest ==
    /\ http.phase = "idle"
    /\ \E payload \in ScoringRequests, fault \in ApiFaults :
          LET r == post_score_request(payload, fault, db) IN
          /\ ValidationErrors(payload) # {} => fault = "none"
          /\ http' = [phase |-> "responded", payload |-> payload, fault |-> fault,
                      merged |-> merge_features(payload.customer_id),
                      status |-> r.status, body |-> r.body, trace |-> r.trace,
                      before |-> db]
          /\ db' = r.table
          /\ tasks' = r.scheduled
    /\ UNCHANGED <<retrieval, conversation, chunk_env, loader>>
    /\ UNCHANGED <<op, pc>>
    /\ UNCHANGED qvars
    /\ UNCHANGED ixvars

\* the response has been sent and the background tasks of the request run
RunBackgroundTasks ==
    /\ http.phase = "responded"
    /\ http' = NoExchange
    /\ tasks' = <<>>
    /\ UNCHANGED <<retrieval, conversation, chunk_env, loader, db>>
    /\ UNCHANGED <<op, pc>>
    /\ UNCHANGED qvars
    /\ UNCHANGED ixvars

\* a caller invokes ModelRunnerService.run_inference on a valid request and a
\* feature record
CallRunInference ==
    /\ http.phase = "idle"
    /\ \E payload \in ScoringRequests, merged_features \in MergedFeatures :
          /\ ValidationErrors(payload) = {}
          /\ LET r == run_inference(merged_features, payload) IN
             http' = [phase |-> "inference", payload |-> payload, fault |-> "none",
                      merged |-> merged_features,
                      status |-> 0,
                      body |-> Body("", {}, "", r.approved, r.probability_score,
                                    merged_features.is_thin_file),
                      trace |-> <<"run_inference">>, before |-> db]
    /\ UNCHANGED <<retrieval, conversation, chunk_env, loader, db, tasks>>
    /\ UNCHANGED <<op, pc>>
    /\ UNCHANGED qvars
    /\ UNCHANGED ixvars

\* run_inference has returned to its caller
ReturnInference ==
    /\ http.phase = "inference"
    /\ http' = NoExchange
    /\ UNCHANGED <<retrieval, conversation, chunk_env, loader, db, tasks>>
    /\ UNCHANGED <<op, pc>>
    /\ UNCHANGED qvars
    /\ UNCHANGED ixvars

NextScoring ==
    \/ PostScoreRequest
    \/ RunBackgroundTasks
    \/ CallRunInference
    \/ ReturnInference

SpecScoring == InitScoring /\ [][NextScoring]_vars

(***************************************************************************)
(* Properties.                                                             *)
(***************************************************************************)
FiveKinds == {"ServiceTimeout", "ServiceUnreachable", "ModelNotFound", "ServiceError",
              "UnknownServiceFailure"}

\* the digits of a status code, or the word None
IsStatusText(d) == d = <<"None">> \/ (Len(d) > 0 /\ \A i \in 1..Len(d) : \E k \in 1..10 : d[i] = DigitChar[k])

\* the message kinds whose wording a message has
KindsOf(msg) ==
    {k \in FiveKinds :
        \/ /\ k = "ServiceTimeout"
           /\ Len(msg) = 3
           /\ msg[1] = "Ollama request timed out. Check server responsiveness at "
           /\ msg[3] = " and try again."
        \/ /\ k = "ServiceUnreachable"
           /\ Len(msg) = 3
           /\ msg[1] = "Cannot connect to Ollama at "
           /\ msg[3] = ". Ensure Ollama Desktop is running and reachable."
        \/ /\ k = "ModelNotFound"
           /\ Len(msg) = 3
           /\ msg[1] = "Ollama model '"
           /\ msg[3] = "' was not found (HTTP 404). Pull the model in Ollama Desktop or update OLLAMA_MODEL."
        \/ /\ k = "ServiceError"
           /\ Len(msg) >= 7
           /\ msg[1] = "Ollama request failed with HTTP "
           /\ IsStatusText(SubSeq(msg, 2, Len(msg) - 5))
           /\ msg[Len(msg) - 4] = ". Verify OLLAMA_BASE_URL="
           /\ msg[Len(msg) - 2] = " and OLLAMA_MODEL="
           /\ msg[Len(msg)] = "."
        \/ /\ k = "UnknownServiceFailure"
           /\ msg = <<"Ollama query failed unexpectedly. Verify OLLAMA_BASE_URL and OLLAMA_MODEL settings.">>}

\* the caller got a RuntimeError of the given kind
RaisedKind(o, k) == o.kind = "raised" /\ o.err.type = "RuntimeError" /\ KindsOf(o.err.msg) = {k}

\* the caller got an error the failure translator produced
Translated(o) == \E k \in FiveKinds : RaisedKind(o, k)

\* the base URL and the model name the settings module is documented to give
ConfiguredBaseUrl ==
    IF env["OLLAMA_BASE_URL"] # Unset THEN env["OLLAMA_BASE_URL"] ELSE "http://localhost:11434"

ConfiguredModel ==
    IF env["OLLAMA_MODEL"] # Unset THEN env["OLLAMA_MODEL"]
    ELSE IF env["LLM_MODEL"] # Unset THEN env["LLM_MODEL"] ELSE "qwen3:8b"

\* the failure translator ran in this call: get_engine's handler caught exc
TranslatorRan == pc = "done" /\ excAt = "ollama"

\* explain_case is over; get_engine gave it an engine, and that engine raises
\* engine.exc when it is queried
EngineFails ==
    op = "explain_case" /\ pc = "done" /\ exc = NoExc /\ engine.raises

\* C1: _friendly_ollama_error is total.  Whatever exception reaches it, of any
\* class and with or without a response attached, it returns a RuntimeError
\* whose message has the wording of exactly one of the five kinds, and it
\* raises nothing itself.
C1_TranslatorTotal ==
    TranslatorRan =>
        /\ outcome.kind = "raised"
        /\ outcome.err.type = "RuntimeError"
        /\ Cardinality(KindsOf(outcome.err.msg)) = 1

\* C1's case: an HTTP error that carries no response went through the translator
C1_Witness ==
    /\ TranslatorRan
    /\ exc.cls = "requests.HTTPError"
    /\ ~exc.hasResponse
    /\ RaisedKind(outcome, "ServiceError")

\* the classes of a refused or unreachable connection (a connect timeout is a timeout)
UnreachableClasses ==
    {"ConnectionRefusedError", "requests.ConnectionError", "requests.SSLError", "httpx.ConnectError"}

\* the classes of a timeout
TimeoutConditionClasses ==
    {"socket.timeout", "TimeoutError", "requests.Timeout", "requests.ConnectTimeout",
     "requests.ReadTimeout", "httpx.ReadTimeout", "httpx.ConnectTimeout"}

\* the caller got ServiceUnreachable, naming the configured base URL
GotUnreachable ==
    /\ RaisedKind(outcome, "ServiceUnreachable")
    /\ outcome.err.msg[2] = ConfiguredBaseUrl
    /\ outcome.err.cause = NoExc
    /\ outcome.err.suppress

\* C2: a refused or unreachable connection during the construction of Ollama in
\* get_engine, or during engine.query in explain_case, reaches the caller as
\* ServiceUnreachable "Cannot connect to Ollama at <base url> ...", never as
\* the transport's own exception.
C2_UnreachableTranslated ==
    /\ (TranslatorRan /\ exc.cls \in UnreachableClasses) => GotUnreachable
    /\ (EngineFails /\ engine.exc.cls \in UnreachableClasses) => GotUnreachable

\* C3: when engine.query raises a timeout, explain_case raises ServiceTimeout,
\* whose message says that the Ollama request timed out.
C3_TimeoutTranslated ==
    (EngineFails /\ engine.exc.cls \in TimeoutConditionClasses) =>
        /\ RaisedKind(outcome, "ServiceTimeout")
        /\ outcome.err.msg[2] = ConfiguredBaseUrl

\* C4: for an HTTP status error of either family, explain_case raises
\* ModelNotFound, naming the configured model, exactly when the status is 404,
\* and otherwise ServiceError with the status code and the configured base URL.
C4_HttpStatusTranslated ==
    (/\ EngineFails
     /\ engine.exc.cls \in {"httpx.HTTPStatusError", "requests.HTTPError"}
     /\ engine.exc.hasResponse) =>
        IF engine.exc.status = 404
        THEN /\ RaisedKind(outcome, "ModelNotFound")
             /\ outcome.err.msg[2] = ConfiguredModel
        ELSE /\ RaisedKind(outcome, "ServiceError")
             /\ SubSeq(outcome.err.msg, 2, Len(outcome.err.msg) - 5)
                    = DecimalDigits(engine.exc.status)
             /\ outcome.err.msg[Len(outcome.err.msg) - 3] = ConfiguredBaseUrl

\* the pieces of text the translator's messages are worded with
FixedPieces ==
    {"Ollama request timed out. Check server responsiveness at ", " and try again.",
     "Cannot connect to Ollama at ", ". Ensure Ollama Desktop is running and reachable.",
     "Ollama model '",
     "' was not found (HTTP 404). Pull the model in Ollama Desktop or update OLLAMA_MODEL.",
     "Ollama request failed with HTTP ", ". Verify OLLAMA_BASE_URL=", " and OLLAMA_MODEL=", ".",
     "Ollama query failed unexpectedly. Verify OLLAMA_BASE_URL and OLLAMA_MODEL settings."}

\* the pieces of a status code's text
StatusPieces == {DigitChar[k] : k \in 1..10} \cup {"None"}

\* two exceptions that differ at most in their own text
SameButText(e1, e2) ==
    e1.cls = e2.cls /\ e1.hasResponse = e2.hasResponse /\ e1.status = e2.status

\* the translated error shows nothing of the exception: not through its
\* message, which is the same for every text the exception may carry, and not
\* through its chaining
NoLeak ==
    TranslatorRan =>
        /\ \A e \in Exceptions :
              SameButText(e, exc) => _friendly_ollama_error(e).err.msg = outcome.err.msg
        /\ \A i \in 1..Len(outcome.err.msg) : outcome.err.msg[i] \notin ExcTexts
        /\ outcome.err.cause = NoExc
        /\ outcome.err.suppress

\* C5, as stated: the translated error never leaks the exception, and its
\* message is made of fixed text (the word None counted as such), the
\* configured base URL and the configured model name only.
C5_OnlyFixedUrlModel ==
    /\ NoLeak
    /\ TranslatorRan =>
          \A i \in 1..Len(outcome.err.msg) :
              outcome.err.msg[i] \in FixedPieces \cup {"None", ConfiguredBaseUrl, ConfiguredModel}

\* C5, amended: the translated error never leaks the exception's text, headers
\* or payload; its message is made of fixed text, the configured base URL, the
\* configured model name and, in a ServiceError, the status code of the
\* attached response (None without one); it is raised "from None".
C5_NoLeak ==
    /\ NoLeak
    /\ TranslatorRan =>
          /\ \A i \in 1..Len(outcome.err.msg) :
                outcome.err.msg[i] \in
                    FixedPieces \cup {ConfiguredBaseUrl, ConfiguredModel} \cup StatusPieces
          /\ (\E i \in 1..Len(outcome.err.msg) :
                outcome.err.msg[i] \notin FixedPieces \cup {ConfiguredBaseUrl, ConfiguredModel})
             => RaisedKind(outcome, "ServiceError")

\* C5's case: an exception whose text holds a key was translated
C5_Witness ==
    /\ TranslatorRan
    /\ exc.text = SecretText
    /\ exc.cls = "httpx.HTTPStatusError"
    /\ exc.hasResponse
    /\ exc.status = 401
    /\ RaisedKind(outcome, "ServiceError")

\* C6: every failure of the language model or of the embedding model, on every
\* path (get_engine with _load_index, explain_case, QueryEngineManager.query,
\* chat, get_query_suggestions), reaches the caller as an error of the failure
\* translator: not as the exception itself and not as a returned value.
C6_EveryFailureTranslated ==
    (pc = "done" /\ exc # NoExc /\ excAt \in {"ollama", "embed", "query", "llm"})
        => Translated(outcome)

\* C7: in one explain_case call the engine is queried at most once, and if
\* the query fails the call ends with a translated error: no second query, no
\* cached or default answer.
C7_FailureIsTerminal ==
    op = "explain_case" =>
        /\ queries <= 1
        /\ EngineFails => (Translated(outcome) /\ queries = 1)

(***************************************************************************)
(* Properties of extract_json.                                             *)
(***************************************************************************)
\* extract_json was applied to rawText
Extracted == op = "extract_json" /\ pc = "done"

\* some "{" of the text has a "}" somewhere after it
HasBraceSpan(t) == \E i, j \in 1..Len(t) : i < j /\ t[i] = "{" /\ t[j] = "}"

\* C8: for a text with no "{" that a "}" follows, extract_json raises
\* ValueError "No JSON object found in model output." and does not call the
\* JSON parser.
C8_NoJsonFound ==
    (Extracted /\ ~HasBraceSpan(rawText)) =>
        /\ outcome.kind = "raised"
        /\ outcome.err.type = "ValueError"
        /\ outcome.err.msg = <<"No JSON object found in model output.">>
        /\ loadsCalls = 0

\* C8's case: braces in the text, but no "{" before a "}"
C8_Witness ==
    /\ Extracted
    /\ rawText = <<"w", "}", "w", "{">>
    /\ outcome.err.type = "ValueError"

RECURSIVE ObjectsOfDepth(_)
\* the JSON objects of the extractor alphabet, nested up to d deep
ObjectsOfDepth(d) ==
    IF d = 0 THEN {JsonObject({})}
    ELSE {JsonObject({})}
         \cup {JsonObject({<<"k", v>>}) : v \in ObjectsOfDepth(d - 1) \cup {JsonNumber}}

\* every object whose text fits the longest text of the model
ObjectValues == ObjectsOfDepth(MaxLen)

RECURSIVE Serialize(_)
\* the text of a value of the extractor alphabet
Serialize(v) ==
    IF v.t = "number" THEN <<"1">>
    ELSE IF v.m = {} THEN <<"{", "}">>
    ELSE <<"{", "k">> \o Serialize(DictGet(v.m, "k")) \o <<"}">>

\* the texts of the objects
ObjectTexts == {Serialize(v) : v \in ObjectValues}

\* the value of an object's text
ValueOfText(s) == CHOOSE v \in ObjectValues : Serialize(v) = s

\* C9: in a text made of commentary, one JSON object and commentary (no "{"
\* before the object, no "}" after it), extract_json hands the parser exactly
\* the text from the first "{" to the last "}" and returns the object, whatever
\* the commentary is.
C9_CommentaryIgnored ==
    Extracted =>
        \A i, j \in 1..Len(rawText) :
            (/\ i < j
             /\ SubSeq(rawText, i, j) \in ObjectTexts
             /\ \A a \in 1..(i - 1) : rawText[a] # "{"
             /\ \A b \in (j + 1)..Len(rawText) : rawText[b] # "}") =>
                /\ loadsCalls = 1
                /\ loadsArg = SubSeq(rawText, i, j)
                /\ outcome.kind = "returned"
                /\ outcome.val = ValueOfText(SubSeq(rawText, i, j))

\* C9's case: an object between two words of commentary
C9_Witness ==
    /\ Extracted
    /\ rawText = <<"w", "{", "k", "1", "}", "w">>
    /\ outcome.kind = "returned"
    /\ outcome.val = JsonObject({<<"k", JsonNumber>>})

\* the places where an object's text starts in t
ObjectStarts(t) == {i \in 1..Len(t) : \E j \in i..Len(t) : SubSeq(t, i, j) \in ObjectTexts}

\* the end of the object that starts at i
ObjectEnd(t, i) == CHOOSE j \in i..Len(t) : SubSeq(t, i, j) \in ObjectTexts

\* where the first object of t starts
FirstObjectStart(t) == CHOOSE i \in ObjectStarts(t) : \A k \in ObjectStarts(t) : i <= k

\* t holds an object, other text, and another object
TwoObjects(t) ==
    /\ ObjectStarts(t) # {}
    /\ \E k \in ObjectStarts(t) : k > ObjectEnd(t, FirstObjectStart(t)) + 1

\* C10: from a text with two or more JSON objects separated by other text,
\* extract_json returns the first of them.
C10_FirstObject ==
    (Extracted /\ TwoObjects(rawText)) =>
        /\ outcome.kind = "returned"
        /\ outcome.val =
              ValueOfText(SubSeq(rawText, FirstObjectStart(rawText),
                                 ObjectEnd(rawText, FirstObjectStart(rawText))))

\* the substring extract_json's pattern locates: from the first "{" that a
\* "}" follows to the last "}" of the text
BraceSpan(t) ==
    LET i == CHOOSE a \in 1..Len(t) :
                 /\ t[a] = "{"
                 /\ \E j \in (a + 1)..Len(t) : t[j] = "}"
                 /\ \A b \in 1..(a - 1) : ~(t[b] = "{" /\ \E j \in (b + 1)..Len(t) : t[j] = "}")
        j == CHOOSE a \in 1..Len(t) : t[a] = "}" /\ \A b \in (a + 1)..Len(t) : t[b] # "}"
    IN  SubSeq(t, i, j)

\* C11: when the substring extract_json locates is not the text of a JSON
\* value, extract_json raises JSONDecodeError, which differs in type and in
\* message from the ValueError of a text without an object; json.loads is
\* called once, on the located substring unchanged, and nothing is returned.
C11_MalformedJson ==
    (Extracted /\ HasBraceSpan(rawText) /\ BraceSpan(rawText) \notin ObjectTexts) =>
        /\ outcome.kind = "raised"
        /\ outcome.err.type = "JSONDecodeError"
        /\ outcome.err.type # ValueError.type
        /\ outcome.err.msg # ValueError.msg
        /\ loadsCalls = 1
        /\ loadsArg = BraceSpan(rawText)
        /\ outcome.val = NoValue

\* C11's case: an object followed by a stray closing brace, which a repair
\* would cut off
C11_Witness ==
    /\ Extracted
    /\ rawText = <<"w", "{", "k", "1", "}", "w", "}">>
    /\ outcome.kind = "raised"
    /\ outcome.err.type = "JSONDecodeError"

(***************************************************************************)
(* Properties of the answer schema.                                        *)
(***************************************************************************)
\* model_validate was applied to data
Validated == op = "model_validate" /\ pc = "done"

\* the member of an object or model, NoValue when it has none
Member(v, f) == IF HasKey(v.m, f) THEN DictGet(v.m, f) ELSE NoValue

\* an answer as section 3 of the specification describes it
ConformsToSchema(a) ==
    /\ a.t = "AssistantResponse"
    /\ Member(a, "summary").t = "string"
    /\ Member(a, "decision").t = "string"
    /\ Member(a, "decision").s \in {"approve", "decline", "need_more_info", "review"}
    /\ Member(a, "reasons").t = "list"
    /\ \A r \in ListItems(Member(a, "reasons")) :
          /\ Member(r, "type").s \in {"rule", "model", "policy"}
          /\ Member(r, "text").t = "string"
          /\ Member(r, "evidence").t = "list"
          /\ \A e \in ListItems(Member(r, "evidence")) :
                /\ Member(e, "doc_title").t = "string"
                /\ Member(e, "page").t \in {"None", "number"}

\* a parsed object that breaks one of the rules the claim names
ViolatesSchema(d) ==
    \/ \E f \in {"summary", "decision", "reasons"} : Member(d, f) = NoValue
    \/ Member(d, "decision").s \notin {"approve", "decline", "need_more_info", "review"}
    \/ Member(d, "reasons").t # "list"
    \/ \E r \in ListItems(Member(d, "reasons")) : Member(r, "type").s \notin {"rule", "model", "policy"}

\* C12: every value model_validate returns, the only value explain_case
\* returns, conforms to the answer schema: summary, decision and reasons are
\* present, decision is one of the four decisions and every reason's type is
\* one of rule, model, policy; a parsed object that breaks one of these rules
\* raises ValidationError and no answer, partial or coerced, is returned.
C12_AnswerConforms ==
    Validated =>
        /\ outcome.kind = "returned" => ConformsToSchema(outcome.val)
        /\ ViolatesSchema(data) =>
              /\ outcome.kind = "raised"
              /\ outcome.err.type = "ValidationError"
              /\ outcome.val = NoValue

\* C12's case: an object with an unknown decision was refused
C12_Witness ==
    /\ Validated
    /\ Member(data, "summary") = JsonString("x")
    /\ Member(data, "decision") = JsonString("maybe")
    /\ Member(data, "reasons") = JsonList(<<>>)
    /\ outcome.kind = "raised"

(***************************************************************************)
(* Properties of the IndexManager.                                         *)
(***************************************************************************)
\* the method whose call has just ended
Called(method) == op = method /\ pc = "done"

\* the documents create_index has nothing to index from
NothingToIndex ==
    \/ /\ args.documents.isNone
       /\ \/ ~documents_dir.exists
          \/ documents_dir.files = {}
          \/ args.fault = "reader"
    \/ /\ ~args.documents.isNone
       /\ args.documents.docs = {}

\* C13: when there is nothing to index (the documents directory is missing or
\* empty, the reader fails, or an empty list is passed), create_index returns
\* None without raising, sets no embedding model and writes nothing to disk.
C13_NothingToIndex ==
    (Called("create_index") /\ NothingToIndex) =>
        /\ result.kind = "returned"
        /\ result.index = NoIndex
        /\ embed_model = args.before.embed_model
        /\ index_dir = args.before.index_dir

\* C13's case: the reader failed on a directory that holds documents, in a
\* process that had set no embedding model
C13_Witness ==
    /\ Called("create_index")
    /\ args.documents.isNone
    /\ documents_dir.files # {}
    /\ args.fault = "reader"
    /\ result.index = NoIndex
    /\ embed_model = DefaultEmbedModel

\* whether artifacts of a build are persisted in dir for the backend of c
ArtifactsExist(dir, c) ==
    /\ dir.exists
    /\ IF vector_store_type(c) = "chroma" THEN dir.collection.created
       ELSE dir.store.files # {}

\* C14: load_index never raises; under every backend setting it returns None
\* when no persisted artifacts exist at the configured location, and an
\* index only when artifacts of a previous build exist there.
C14_LoadWithoutArtifacts ==
    Called("load_index") =>
        /\ result.kind = "returned"
        /\ ~ArtifactsExist(args.before.index_dir, cfg) => result.index = NoIndex
        /\ result.index # NoIndex =>
              /\ args.before.index_dir.store.entries # {}
              /\ result.index.entries = args.before.index_dir.store.entries

\* C14's case: the index directory exists and holds nothing, under the
\* chroma setting
C14_Witness ==
    /\ Called("load_index")
    /\ vector_store_type(cfg) = "chroma"
    /\ args.before.index_dir.exists
    /\ args.before.index_dir.store = NoStore
    /\ ~args.before.index_dir.collection.created
    /\ result.kind = "returned"
    /\ result.index = NoIndex

\* the top_k entries a search of the index returns for a fixed query vector:
\* the ranking of the entries is fixed, here by their number
search(index, top_k) == {e \in index.entries : Cardinality({f \in index.entries : f < e}) < top_k}

\* the last create_index call persisted an index, without a failure, under
\* the configuration of this process
BuiltHere == built.index # NoIndex /\ built.cfg = cfg

\* C15: for each backend setting, after create_index on a non-empty document
\* set with persist=True returned an index, load_index under the same
\* configuration returns an index with the same entries, and every search
\* gives the same results on both.
C15_RoundTrip ==
    (Called("load_index") /\ BuiltHere /\ args.fault = "none") =>
        /\ result.index # NoIndex
        /\ result.index.entries = built.index.entries
        /\ \A k \in 1..(MaxDocs + 1) : search(result.index, k) = search(built.index, k)

\* rebuild_index ended without a new index: it raised or returned None
BuildFailed == result.kind = "raised" \/ result.index = NoIndex

\* C16: rebuild_index deletes the persisted index before it builds.  When the
\* build then raises or finds no documents, nothing of the previous index is
\* left and load_index, in this or any later process, returns None; when the
\* build succeeds what is persisted holds the documents of the directory only.
C16_RebuildLeavesNoStaleIndex ==
    Called("rebuild_index") =>
        /\ BuildFailed =>
              /\ index_dir.store = NoStore
              /\ index_dir.collection = NoCollection
              /\ \A c \in Configurations, f \in Faults :
                    load_index(c, index_dir, embed_model, f).kind = "returned"
                    /\ load_index(c, index_dir, embed_model, f).index = NoIndex
        /\ (~BuildFailed /\ args.fault = "none" /\ vector_store_type(cfg) # "chroma") =>
              index_dir.store.entries = documents_dir.files

\* C16's case: an index was persisted, and the rebuild failed while embedding
C16_Witness ==
    /\ Called("rebuild_index")
    /\ args.before.index_dir.store.entries # {}
    /\ args.fault = "embed"
    /\ result.kind = "raised"
    /\ index_dir.store = NoStore

\* C17: after load_index returned an index, under every backend setting, the
\* process-wide embedding model is the configured model create_index sets at
\* build time.
C17_SameEmbeddingModel ==
    (Called("load_index") /\ args.fault = "none" /\ result.index # NoIndex) =>
        embed_model = HuggingFaceEmbedding(cfg)

\* C18: load_index on an index persisted for the configured backend whose
\* vectors have another dimension than the configured embedding model fails
\* with DimensionMismatch and returns no index.
C18_DimensionMismatch ==
    (/\ Called("load_index")
     /\ args.fault = "none"
     /\ args.before.index_dir.store.entries # {}
     /\ args.before.index_dir.store.format = vector_store_type(cfg)
     /\ Dimension(args.before.index_dir.store.model) # Dimension(HuggingFaceEmbedding(cfg))) =>
        /\ result.index = NoIndex
        /\ result.kind = "raised"
        /\ result.err = "DimensionMismatch"

\* the documents a create_index call has to index
DocumentsGiven ==
    IF args.documents.isNone
    THEN (IF documents_dir.exists THEN documents_dir.files ELSE {})
    ELSE args.documents.docs

\* C19: under the chroma setting, create_index on a non-empty document set
\* opens the configured collection and returns an index without raising,
\* whether the collection existed or not.
C19_ChromaCreate ==
    (/\ Called("create_index")
     /\ vector_store_type(cfg) = "chroma"
     /\ DocumentsGiven # {}
     /\ args.fault = "none") =>
        /\ result.kind = "returned"
        /\ result.index # NoIndex

\* C20: get_index_stats never raises: it returns a record for every handle,
\* with total_docs 0 for a handle whose document store is None, and the empty
\* record when looking into the handle fails.
C20_StatsNeverThrows ==
    Called("get_index_stats") =>
        /\ result.kind = "returned"
        /\ args.handle.doc_store = "None" =>
              /\ "total_docs" \in result.stats.keys
              /\ result.stats.total_docs = 0
        /\ args.handle.doc_store = "store" =>
              /\ "total_docs" \in result.stats.keys
              /\ result.stats.total_docs = args.handle.docs
        /\ args.handle.doc_store \in {"<no attribute>", "Mock"} => result.stats.keys = {}

\* C20's case: the handle of the test, whose doc_store is None
C20_Witness ==
    /\ Called("get_index_stats")
    /\ args.handle.t = "Mock"
    /\ args.handle.doc_store = "None"
    /\ result.kind = "returned"
    /\ result.stats.total_docs = 0

(***************************************************************************)
(* C21..C22  retrieval and chat                                            *)
(***************************************************************************)
\* a retrieval handed the synthesizer a node below the cutoff
BelowCutoffSynthesized == \E n \in retrieval.passed : n.score < similarity_cutoff

\* C21: every retrieval made for a query drops the results whose similarity is
\* below 0.7 before synthesis: neither QueryEngineManager.query nor the engine
\* of get_engine, which explain_case uses, hands the model or the caller a chunk
\* scored below the cutoff.
C21_CutoffEverywhere ==
    retrieval.engine \in {"QueryEngineManager.query", "QueryEngineManager.chat", "get_engine"}
        => ~BelowCutoffSynthesized

\* the last chat call ran in condense_question mode
Condensing == conversation.mode = "CondenseQuestionChatEngine"

\* the turns before the last one
EarlierTurns == SubSeq(conversation.turns, 1, Len(conversation.turns) - 1)

\* C22: in condense_question mode the k-th chat call of a conversation is
\* condensed against the k-1 earlier turns, or against the chat_history the
\* caller passed in.
C22_FollowUpSeesHistory ==
    (Condensing /\ Len(conversation.turns) > 0)
        => conversation.seen = IF conversation.given.present
                               THEN conversation.given.turns
                               ELSE EarlierTurns

(***************************************************************************)
(* C23  chunking configuration                                             *)
(***************************************************************************)
\* C23: the chunking configuration always satisfies
\* 0 < chunk_overlap < chunk_size: no DataLoader is constructed, and no
\* document chunked, with values of CHUNK_SIZE and CHUNK_OVERLAP that break it.
C23_ChunkConfiguration ==
    loader.constructed => (0 < loader.chunk_overlap /\ loader.chunk_overlap < loader.chunk_size)

(***************************************************************************)
(* C24  the configured model name                                          *)
(***************************************************************************)
\* C24: the configured model name is the value of OLLAMA_MODEL when that
\* variable is set, whether or not LLM_MODEL is set; otherwise the value of
\* LLM_MODEL when that is set; otherwise 'qwen3:8b'.  The alias LLM_MODEL
\* always equals OLLAMA_MODEL.
C24_ModelName ==
    /\ env["OLLAMA_MODEL"] # Unset => OLLAMA_MODEL = env["OLLAMA_MODEL"]
    /\ (env["OLLAMA_MODEL"] = Unset /\ env["LLM_MODEL"] # Unset)
          => OLLAMA_MODEL = env["LLM_MODEL"]
    /\ (env["OLLAMA_MODEL"] = Unset /\ env["LLM_MODEL"] = Unset) => OLLAMA_MODEL = "qwen3:8b"
    /\ LLM_MODEL = OLLAMA_MODEL

\* both variables are set, to different names, and a failure message of
\* get_engine names the model of OLLAMA_MODEL
C24_Witness ==
    /\ env["OLLAMA_MODEL"] # Unset
    /\ env["LLM_MODEL"] # Unset
    /\ env["OLLAMA_MODEL"] # env["LLM_MODEL"]
    /\ TranslatorRan
    /\ outcome.kind = "raised"
    /\ \E i \in 1..Len(outcome.err.msg) : outcome.err.msg[i] = env["OLLAMA_MODEL"]

(***************************************************************************)
(* C25..C26, C29..C30  the scoring service                                 *)
(***************************************************************************)
\* the application has answered the request http.payload
Responded == http.phase = "responded"

\* the request identifier was already in the table when the request came in
Repeated == \E r \in http.before : r.request_id = http.payload.request_id

\* 'existing' is in the customer identifier, whatever the case of its letters
NamesExisting(customer_id) ==
    \E i \in 1..Len(customer_id) : customer_id[i] \in {"existing", "EXISTING"}

\* C25: every schema-valid POST /api/v1/score/request is answered with HTTP 200,
\* its request_id echoed, and explanations.is_thin_file true exactly when the
\* customer_id does not contain 'existing' in any case; this holds for each
\* request of any sequence, one that repeats an earlier request_id included.
C25_ValidRequestScored ==
    (Responded /\ ValidationErrors(http.payload) = {} /\ http.fault = "none")
        => /\ http.status = 200
           /\ http.body.request_id = http.payload.request_id
           /\ http.body.is_thin_file <=> ~NamesExisting(http.payload.customer_id)

\* the request fails validation in one of the ways C26 lists
FailsValidation(payload) ==
    \/ payload.demographics.employment_status = Missing
    \/ payload.loan_details.loan_purpose = Missing
    \/ payload.demographics.age < 18
    \/ payload.demographics.age > 120
    \/ payload.financials.monthly_income < 0
    \/ payload.financials.monthly_expenses < 0
    \/ payload.loan_details.loan_amount < 0
    \/ payload.loan_details.loan_term_months < 1
    \/ payload.loan_details.loan_term_months > 360

StepAt(step) ==
    IF \E i \in 1..Len(http.trace) : http.trace[i] = step
    THEN CHOOSE i \in 1..Len(http.trace) : http.trace[i] = step
    ELSE 0

\* merge, inference or commit failed in the request
StepFailed == http.fault \in {"merge", "inference", "commit"} \/ Repeated

\* C29: the result row is committed before the audit task is scheduled and
\* before the response is returned; when merge, inference or commit fails the
\* client gets HTTP 500 with detail 'Internal Server Error during scoring.' and
\* no audit task is scheduled.
C29_CommitBeforeAudit ==
    (Responded /\ ValidationErrors(http.payload) = {}) =>
        /\ tasks # <<>> =>
              /\ StepAt("commit") > 0
              /\ StepAt("commit") < StepAt("add_task")
              /\ \E r \in db : r.request_id = http.payload.request_id
        /\ http.status = 200 =>
              /\ StepAt("commit") > 0
              /\ StepAt("commit") < StepAt("add_task")
              /\ StepAt("add_task") < StepAt("return")
              /\ \E r \in db \ http.before : r.request_id = http.payload.request_id
              /\ Len(tasks) = 1
        /\ StepFailed =>
              /\ http.status = 500
              /\ http.body.detail = "Internal Server Error during scoring."
              /\ tasks = <<>>
              /\ db = http.before

\* the commit of a valid request failed
C29_Witness ==
    /\ Responded
    /\ ValidationErrors(http.payload) = {}
    /\ http.fault = "commit"
    /\ http.status = 500
    /\ StepAt("add") > 0

\* run_inference has produced a result from http.payload and http.merged
Inferred ==
    \/ http.phase = "inference"
    \/ http.phase = "responded" /\ http.status = 200

\* C30: for every valid request and feature record run_inference returns a
\* probability_score within [0.01, 0.99] and approved true exactly when the
\* probability_score is above 0.6; the thin-file penalty can only lower the
\* score the same inputs get without it.
C30_ScoreRange ==
    Inferred =>
        /\ http.body.probability_score >= 1
        /\ http.body.probability_score <= 99
        /\ http.body.approved <=> http.body.probability_score > 60
        /\ http.merged.is_thin_file =>
              http.body.probability_score
                 <= run_inference([http.merged EXCEPT !.is_thin_file = FALSE],
                                  http.payload).probability_score

\* run_inference scored a thin-file record whose other features earn both
\* bonuses, and the penalty took the score from 0.9 to 0.75
C30_Witness ==
    /\ http.phase = "inference"
    /\ http.merged.is_thin_file
    /\ http.merged.credit_bureau_score > 700
    /\ http.body.probability_score = 75
    /\ http.body.approved

(***************************************************************************)
(* C27..C28  the prompt and the failures after the model call              *)
(***************************************************************************)
\* explain_case is over and get_engine had given it an engine
EngineGiven == op = "explain_case" /\ pc = "done" /\ excAt \notin {"ollama", "embed", "index"}

\* C27: for every question and decision_json explain_case builds its prompt
\* from PROMPT_TEMPLATE by substituting the two placeholders only; building the
\* prompt never fails, and that prompt is what the engine is queried with.
C27_PromptSubmitted ==
    (EngineGiven /\ Serializable(decision_json)) =>
        /\ ~BuildPrompt(question, decision_json).raised
        /\ queries = 1

\* the failure the steps after a successful model call end with on the output
\* text t, NoError when they end with an answer
FailureAfterModelCall(t) ==
    LET e == extract_json(t) IN
    IF e.raised THEN e.err
    ELSE IF model_validate(e.val).raised THEN model_validate(e.val).err
    ELSE NoError

\* C28: in explain_case only a failure of the engine query is translated: when
\* the model call succeeds and its output holds no JSON, malformed JSON or a
\* dict the schema refuses, the caller gets that failure itself, never one of
\* the Ollama service failures.
C28_LaterFailuresRaisedAsThemselves ==
    (EngineGiven /\ ~engine.raises /\ FailureAfterModelCall(engine.text) # NoError)
        => outcome = Raised(FailureAfterModelCall(engine.text))

====
